---- MODULE Spec2Model ----
(***************************************************************************)
(* Collection-backed REST resources of idf-dwwm-express.                   *)
(*                                                                         *)
(* Each exercise is an Express server holding an ordered array of records  *)
(* (books, authors, categories, games, notes) and answering requests on    *)
(* it.  A request handler runs start-to-finish, so every handler is one    *)
(* action.  The servers do not interact: a behaviour of Spec exercises one *)
(* resource (svc, chosen in Init) and leaves the others at their seed.     *)
(*                                                                         *)
(* JavaScript values.  A JSON body is a function from the keys it carries  *)
(* to their values; a key that is absent reads as undefined.  A stored     *)
(* record is a function in the same way: a field assigned undefined is a   *)
(* key that is absent (JSON.stringify drops it, and reading it gives       *)
(* undefined either way).  Path and query parameters are strings, written  *)
(* as sequences of one-character strings so that parseInt, Number and      *)
(* String are computed character by character.                             *)
(***************************************************************************)
EXTENDS Integers, Sequences, FiniteSets, TLC

VARIABLES
    svc,         \* the resource this behaviour exercises
    books,       \* tp3.1: const books : Book[]
    authors,     \* tp3.1: const authors : Author[]
    categories,  \* tp3.1: const categories : Category[]
    games,       \* tp3: const games : Game[]
    notes,       \* docknotes (in memory): const notes : Note[]
    dbNotes,     \* docknotes (persisted): the rows of table notes
    dbCategories,\* docknotes (persisted): the rows of table categories
    dbSeq,       \* the AUTO_INCREMENT / SERIAL counter of each table
    pending,     \* persisted handlers suspended at an await
    sent,        \* history: number of statements sent to the store
    nops,        \* number of requests handled so far
    deleted,     \* history: ids removed from the exercised collection so far
    last         \* the request handled last and the response it was sent

vars == <<svc, books, authors, categories, games, notes, dbNotes, dbCategories,
          dbSeq, pending, sent, nops, deleted, last>>

\* The persisted variant's state.
Db == <<dbNotes, dbCategories, dbSeq, pending, sent>>

(***************************************************************************)
(* Bounds of the model.                                                    *)
(***************************************************************************)
\* Requests per behaviour.
MaxOps == 2

(***************************************************************************)
(* JavaScript helpers.                                                     *)
(***************************************************************************)
\* body.f !== undefined
Has(body, f) == f \in DOMAIN body

\* Truthiness of body.f for a string field: undefined and "" are falsy.
TruthyStr(body, f) == Has(body, f) /\ body[f] # ""

\* Truthiness of body.f for a number field: undefined and 0 are falsy.
TruthyNum(body, f) == Has(body, f) /\ body[f] # 0

\* Truthiness of body.f for a boolean field: undefined and false are falsy.
TruthyBool(body, f) == Has(body, f) /\ body[f]

\* body.f ?? dflt
OrElse(body, f, dflt) == IF Has(body, f) THEN body[f] ELSE dflt

\* A number, or NaN.
NaN == [nan |-> TRUE, val |-> 0]
Num(n) == [nan |-> FALSE, val |-> n]

DigitChars == {"0", "1", "2", "3", "4", "5", "6", "7", "8", "9"}

DigitVal(c) ==
    CASE c = "0" -> 0 [] c = "1" -> 1 [] c = "2" -> 2 [] c = "3" -> 3
      [] c = "4" -> 4 [] c = "5" -> 5 [] c = "6" -> 6 [] c = "7" -> 7
      [] c = "8" -> 8 [] c = "9" -> 9

DigitChar(d) ==
    CASE d = 0 -> "0" [] d = 1 -> "1" [] d = 2 -> "2" [] d = 3 -> "3"
      [] d = 4 -> "4" [] d = 5 -> "5" [] d = 6 -> "6" [] d = 7 -> "7"
      [] d = 8 -> "8" [] d = 9 -> "9"

\* Length of the longest prefix of s made of decimal digits.
RECURSIVE DigitPrefixLen(_)
DigitPrefixLen(s) ==
    IF s = <<>> \/ Head(s) \notin DigitChars THEN 0
    ELSE 1 + DigitPrefixLen(Tail(s))

\* Value of a sequence of decimal digits.
RECURSIVE DigitsValue(_, _)
DigitsValue(s, acc) ==
    IF s = <<>> THEN acc
    ELSE DigitsValue(Tail(s), 10 * acc + DigitVal(Head(s)))

\* parseInt(s), radix 10: an optional sign, then the longest prefix of
\* digits; what follows is ignored; NaN when there is no digit.  undefined
\* and "" (both <<>>) give NaN.
ParseInt(s) ==
    LET neg  == s # <<>> /\ Head(s) = "-"
        rest == IF s # <<>> /\ Head(s) \in {"-", "+"} THEN Tail(s) ELSE s
        k    == DigitPrefixLen(rest)
        v    == DigitsValue(SubSeq(rest, 1, k), 0)
    IN  IF k = 0 THEN NaN ELSE Num(IF neg THEN 0 - v ELSE v)

\* Number(s) for a route parameter (never empty): the whole string must be
\* a decimal numeral, else NaN.
ToNumber(s) ==
    LET neg  == s # <<>> /\ Head(s) = "-"
        rest == IF s # <<>> /\ Head(s) \in {"-", "+"} THEN Tail(s) ELSE s
        k    == DigitPrefixLen(rest)
        v    == DigitsValue(rest, 0)
    IN  IF k = 0 \/ k # Len(rest) THEN NaN ELSE Num(IF neg THEN 0 - v ELSE v)

\* String(n) for an integer n.
RECURSIVE NatToStr(_)
NatToStr(n) ==
    IF n < 10 THEN <<DigitChar(n)>>
    ELSE NatToStr(n \div 10) \o <<DigitChar(n % 10)>>

ToStr(n) == IF n < 0 THEN <<"-">> \o NatToStr(0 - n) ELSE NatToStr(n)

\* x || dflt for a parsed number: NaN and 0 are falsy.
NumOr(x, dflt) == IF x.nan \/ x.val = 0 THEN dflt ELSE x.val

\* record.id === x for a parsed number x (NaN equals nothing).
IdIs(rec, x) == ~x.nan /\ rec.id = x.val

(***************************************************************************)
(* Array helpers.                                                          *)
(***************************************************************************)
\* coll.map(r => r.id)
Ids(coll) == [i \in 1..Len(coll) |-> coll[i].id]

IdSet(coll) == {coll[i].id : i \in 1..Len(coll)}

\* Math.max(...ids) of a non-empty array
MaxOf(S) == CHOOSE m \in S : \A x \in S : x <= m

\* coll.findIndex(r => r.id === x): the first index, 0 when there is none
\* (JavaScript's -1).
FindIndex(coll, x) ==
    IF \E i \in 1..Len(coll) : IdIs(coll[i], x)
    THEN CHOOSE i \in 1..Len(coll) :
            IdIs(coll[i], x) /\ \A j \in 1..(i - 1) : ~IdIs(coll[j], x)
    ELSE 0

\* coll.splice(i, 1)
RemoveAt(coll, i) == SubSeq(coll, 1, i - 1) \o SubSeq(coll, i + 1, Len(coll))

\* coll.slice(start, end): a negative index counts from the end, and both
\* are clamped to the array.
JsSlice(coll, start, end) ==
    LET n    == Len(coll)
        from == IF start < 0 THEN (IF n + start < 0 THEN 0 ELSE n + start)
                ELSE (IF start > n THEN n ELSE start)
        to   == IF end < 0 THEN (IF n + end < 0 THEN 0 ELSE n + end)
                ELSE (IF end > n THEN n ELSE end)
    IN  SubSeq(coll, from + 1, to)

\* Math.ceil(a / b) for integers a >= 0 and b # 0.
CeilDiv(a, b) ==
    IF b > 0 THEN (a + b - 1) \div b
    ELSE 0 - (a \div (0 - b))

\* Mutant of SpreadWithId: { ...old, id, ...body }, the body spread last.
SpreadBodyLast(old, body, id) ==
    [f \in (DOMAIN old) \cup (DOMAIN body) \cup {"id"} |->
        IF f \in DOMAIN body THEN body[f]
        ELSE IF f = "id" THEN id
        ELSE old[f]]

\* { ...old, ...body, id }: the keys of both, body's value where it has the
\* key, and id last.
SpreadWithId(old, body, id) ==
    [f \in (DOMAIN old) \cup (DOMAIN body) \cup {"id"} |->
        IF f = "id" THEN id
        ELSE IF f \in DOMAIN body THEN body[f]
        ELSE old[f]]

\* An object literal with the fields in `fields` taken from body, keeping
\* only those body defines (the others are undefined), plus `base`.
Pick(base, body, fields) ==
    [f \in (DOMAIN base) \cup ((DOMAIN body) \cap fields) |->
        IF f \in DOMAIN base THEN base[f] ELSE body[f]]

\* What a handler leaves behind: the request (n is its rank among the
\* requests received), and the response sent.
ReplyTo(n, op, arg, body, status, res) ==
    [n |-> n, op |-> op, arg |-> arg, body |-> body, status |-> status,
     res |-> res, sends |-> IF status = 0 THEN 0 ELSE 1]

\* One more res.json(...) after the response went out: the call throws
\* (the headers are sent already) and the response sent first stands.
JsonAgain(reply) == [reply EXCEPT !.sends = @ + 1]

\* The reply of a handler that answers the request just received.
Reply(op, arg, body, status, res) == ReplyTo(nops', op, arg, body, status, res)

\* {} : the object with no key (also: no body, no parameter, no payload).
EmptyObj == [f \in {} |-> TRUE]

NoArg == <<>>
NoRes == EmptyObj


(***************************************************************************)
(* tp3.1: the books, authors and categories service.                       *)
(***************************************************************************)
\* data/books.ts is not part of the sources at hand: a seed in the shape of
\* the Book interface, with ids 1..3 as in the authors and categories seeds.
\* Prices are in cents.
BooksSeed == <<
    [id |-> 1, title |-> "Les Miserables", author |-> "Victor Hugo",
     year |-> 1862, genre |-> "Roman", price |-> 1250, inStock |-> TRUE,
     rating |-> 5],
    [id |-> 2, title |-> "Dune", author |-> "Frank Herbert",
     year |-> 1965, genre |-> "Science-Fiction", price |-> 1000,
     inStock |-> FALSE, rating |-> 4],
    [id |-> 3, title |-> "Harry Potter", author |-> "J.K. Rowling",
     year |-> 2001, genre |-> "Fantasy", price |-> 900, inStock |-> TRUE,
     rating |-> 3] >>

\* Request bodies a client sends for a book (POST, PUT, PATCH).
BookBodies == {
    [title |-> "1984", author |-> "George Orwell", price |-> 800],
    [title |-> "X"],
    [title |-> "", author |-> "A", price |-> 500],
    [id |-> 1, year |-> 0, inStock |-> FALSE],
    [title |-> "It", author |-> "Stephen King", year |-> 1986,
     genre |-> "Horreur", price |-> 0, inStock |-> FALSE, rating |-> 4] }

\* Values of the :id path parameter.
BookIdParams == { <<"1">>, <<"2", "x">>, <<"3">>, <<"4">>, <<"x">> }

\* Values of the :id path parameter of the discount and rating routes: a
\* book of the seed, and an id no book has.
PricedIdParams == { <<"1">>, <<"4">> }

\* Values of the :id path parameter of PUT and PATCH /api/books/:id.
WrittenIdParams == { <<"1">>, <<"2", "x">>, <<"4">>, <<"x">> }

NotBooks == <<svc, authors, categories, games, notes, Db>>

\* The server named `name` handles one more request.
Handles(name) == svc = name /\ nops < MaxOps /\ nops' = nops + 1

\* Mutant of NewId: the next id taken from the length of the array.
NewIdFromLength(coll) == Len(coll) + 1

\* books.length > 0 ? Math.max(...books.map((b) => b.id)) + 1 : 1
NewId(coll) == IF Len(coll) > 0 THEN MaxOf(IdSet(coll)) + 1 ELSE 1

\* !title || !author || price === undefined
BookInvalid(body) ==
    ~TruthyStr(body, "title") \/ ~TruthyStr(body, "author") \/ ~Has(body, "price")

\* The record POST /api/books builds.
NewBook(coll, body) ==
    [id |-> NewId(coll), title |-> body.title, author |-> body.author,
     year |-> OrElse(body, "year", 0), genre |-> OrElse(body, "genre", ""),
     price |-> body.price, inStock |-> OrElse(body, "inStock", TRUE),
     rating |-> OrElse(body, "rating", 0)]

\* POST /api/books
PostBook(body) ==
    /\ Handles("books")
    /\ IF BookInvalid(body)
       THEN /\ last' = Reply("postBook", NoArg, body, 400, NoRes)
            /\ UNCHANGED books
       ELSE /\ books' = Append(books, NewBook(books, body))
            /\ last' = Reply("postBook", NoArg, body, 201, NewBook(books, body))
    /\ UNCHANGED <<NotBooks, deleted>>

\* books.find((b) => b.id === id) of GET /api/books/:id, as a response.
GetById(coll, x) ==
    LET i == FindIndex(coll, x)
    IN  IF i = 0 THEN [status |-> 404, res |-> NoRes]
        ELSE [status |-> 200, res |-> coll[i]]

\* GET /api/books/:id
GetBook(idp) ==
    /\ Handles("books")
    /\ LET r == GetById(books, ParseInt(idp))
       IN  last' = Reply("getBook", idp, EmptyObj, r.status, r.res)
    /\ UNCHANGED <<books, NotBooks, deleted>>

\* DELETE /api/books/:id
DeleteBook(idp) ==
    /\ Handles("books")
    /\ LET index == FindIndex(books, ParseInt(idp))
       IN  IF index = 0
           THEN /\ last' = Reply("deleteBook", idp, EmptyObj, 404, NoRes)
                /\ UNCHANGED <<books, deleted>>
           ELSE /\ books' = RemoveAt(books, index)
                /\ deleted' = deleted \cup {books[index].id}
                /\ last' = Reply("deleteBook", idp, EmptyObj, 200, books[index])
    /\ UNCHANGED NotBooks

\* One element of POST /api/books/batch: appended when title and author
\* are truthy, skipped otherwise.
BatchBook(coll, bookData) ==
    IF TruthyStr(bookData, "title") /\ TruthyStr(bookData, "author")
    THEN Append(coll,
            [id |-> NewId(coll), title |-> bookData.title,
             author |-> bookData.author, year |-> OrElse(bookData, "year", 0),
             genre |-> OrElse(bookData, "genre", ""),
             price |-> OrElse(bookData, "price", 0),
             inStock |-> OrElse(bookData, "inStock", TRUE),
             rating |-> OrElse(bookData, "rating", 0)])
    ELSE coll

\* newBooks.forEach(...) of POST /api/books/batch
RECURSIVE BatchBooks(_, _)
BatchBooks(coll, newBooks) ==
    IF newBooks = <<>> THEN coll
    ELSE BatchBooks(BatchBook(coll, Head(newBooks)), Tail(newBooks))

\* Bodies of POST /api/books/batch: arrays of partial books, or no array.
BookBatchBodies == {
    [isArray |-> TRUE, items |-> <<
        [title |-> "1984", author |-> "George Orwell", price |-> 800],
        [title |-> "X"],
        [title |-> "Emma", author |-> "Jane Austen"] >>],
    [isArray |-> TRUE, items |-> <<>>],
    [isArray |-> FALSE, items |-> <<>>] }

\* POST /api/books/batch
PostBooksBatch(body) ==
    /\ Handles("books")
    /\ IF ~body.isArray
       THEN /\ last' = Reply("postBooksBatch", NoArg, body, 400, NoRes)
            /\ UNCHANGED books
       ELSE /\ books' = BatchBooks(books, body.items)
            /\ last' = Reply("postBooksBatch", NoArg, body, 201,
                    [addedCount |-> Len(books') - Len(books)])
    /\ UNCHANGED <<NotBooks, deleted>>

\* `Copie de ${title}`
CopyTitle(title) == "Copie de " \o title

\* { ...book, id: newId, title: `Copie de ${book.title}` }
Duplicate(book, newId) ==
    [f \in DOMAIN book |->
        IF f = "id" THEN newId
        ELSE IF f = "title" THEN CopyTitle(book.title)
        ELSE book[f]]

\* POST /api/books/:id/duplicate
DuplicateBook(idp) ==
    /\ Handles("books")
    /\ LET index == FindIndex(books, ParseInt(idp))
       IN  IF index = 0
           THEN /\ last' = Reply("duplicateBook", idp, EmptyObj, 404, NoRes)
                /\ UNCHANGED books
           ELSE /\ books' = Append(books, Duplicate(books[index], NewId(books)))
                /\ last' = Reply("duplicateBook", idp, EmptyObj, 201,
                        Duplicate(books[index], NewId(books)))
    /\ UNCHANGED <<NotBooks, deleted>>

BookFields == {"title", "author", "year", "genre", "price", "inStock", "rating"}

\* Mutant of ReplacedBook: inStock defaults to true, as in POST /api/books.
ReplacedInStock(id, body) ==
    Pick([id |-> id, inStock |-> OrElse(body, "inStock", TRUE)], body, BookFields)

\* The record PUT /api/books/:id builds: the id of the path and the seven
\* fields as the body gives them (undefined when it does not).
ReplacedBook(id, body) == Pick([id |-> id], body, BookFields)

\* PUT /api/books/:id
PutBook(idp, body) ==
    /\ Handles("books")
    /\ LET id    == ParseInt(idp)
           index == FindIndex(books, id)
       IN  IF index = 0
           THEN /\ last' = Reply("putBook", idp, body, 404, NoRes)
                /\ UNCHANGED books
           ELSE IF BookInvalid(body)
           THEN /\ last' = Reply("putBook", idp, body, 400, NoRes)
                /\ UNCHANGED books
           ELSE /\ books' = [books EXCEPT ![index] = ReplacedBook(id.val, body)]
                /\ last' = Reply("putBook", idp, body, 200,
                        ReplacedBook(id.val, body))
    /\ UNCHANGED <<NotBooks, deleted>>

\* PATCH /api/books/:id
PatchBook(idp, body) ==
    /\ Handles("books")
    /\ LET id    == ParseInt(idp)
           index == FindIndex(books, id)
       IN  IF index = 0
           THEN /\ last' = Reply("patchBook", idp, body, 404, NoRes)
                /\ UNCHANGED books
           ELSE /\ books' = [books EXCEPT
                        ![index] = SpreadWithId(books[index], body, id.val)]
                /\ last' = Reply("patchBook", idp, body, 200, books'[index])
    /\ UNCHANGED <<NotBooks, deleted>>

\* rec.f = v on a stored record (the key is added when it was undefined).
SetField(rec, f, v) ==
    [g \in (DOMAIN rec) \cup {f} |-> IF g = f THEN v ELSE rec[g]]

\* !book.inStock : undefined is falsy
Negated(rec, f) == ~(f \in DOMAIN rec /\ rec[f])

\* books[index].inStock = !books[index].inStock
Toggled(rec, f) == SetField(rec, f, Negated(rec, f))

\* PATCH /api/books/:id/toggle-stock
ToggleStock(idp) ==
    /\ Handles("books")
    /\ LET index == FindIndex(books, ParseInt(idp))
       IN  IF index = 0
           THEN /\ last' = Reply("toggleStock", idp, EmptyObj, 404, NoRes)
                /\ UNCHANGED books
           ELSE /\ books' = [books EXCEPT ![index] = Toggled(@, "inStock")]
                /\ last' = Reply("toggleStock", idp, EmptyObj, 200,
                        [inStock |-> books'[index].inStock])
    /\ UNCHANGED <<NotBooks, deleted>>

\* parseFloat((price * (1 + percentage / 100)).toFixed(2)), prices in cents:
\* the nearest cent.  The percentages below never give half a cent, where
\* the result would depend on the binary rounding of the product.
ScalePrice(price, percentage) ==
    (2 * price * (100 + percentage) + 100) \div 200

PercentageBodies == { EmptyObj, [percentage |-> 20] }

\* PATCH /api/books/:id/discount
Discount(idp, body) ==
    /\ Handles("books")
    /\ LET index == FindIndex(books, ParseInt(idp))
       IN  IF index = 0
           THEN /\ last' = Reply("discount", idp, body, 404, NoRes)
                /\ UNCHANGED books
           ELSE IF ~Has(body, "percentage")
           THEN /\ last' = Reply("discount", idp, body, 400, NoRes)
                /\ UNCHANGED books
           ELSE /\ books' = [books EXCEPT ![index] = SetField(@, "price",
                        ScalePrice(@.price, 0 - body.percentage))]
                /\ last' = Reply("discount", idp, body, 200,
                        [newPrice |-> books'[index].price])
    /\ UNCHANGED <<NotBooks, deleted>>

RatingBodies ==
    { EmptyObj, [rating |-> 0], [rating |-> 5], [rating |-> 6], [rating |-> -1] }

\* Mutant of OutOfRange: only the upper bound is tested.
AboveFive(rating) == rating > 5

\* rating < 0 || rating > 5
OutOfRange(rating) == rating < 0 \/ rating > 5

\* PATCH /api/books/:id/rating
SetRating(idp, body) ==
    /\ Handles("books")
    /\ LET index == FindIndex(books, ParseInt(idp))
       IN  IF index = 0
           THEN /\ last' = Reply("setRating", idp, body, 404, NoRes)
                /\ UNCHANGED books
           ELSE IF ~Has(body, "rating")
           THEN /\ last' = Reply("setRating", idp, body, 400, NoRes)
                /\ UNCHANGED books
           ELSE IF OutOfRange(body.rating)
           THEN /\ last' = Reply("setRating", idp, body, 400, NoRes)
                /\ UNCHANGED books
           ELSE /\ books' = [books EXCEPT
                        ![index] = SetField(@, "rating", body.rating)]
                /\ last' = Reply("setRating", idp, body, 200,
                        [rating |-> body.rating])
    /\ UNCHANGED <<NotBooks, deleted>>

\* PATCH /api/books/clear-stock
ClearStock ==
    /\ Handles("books")
    /\ books' = [i \in 1..Len(books) |-> SetField(books[i], "inStock", FALSE)]
    /\ last' = Reply("clearStock", NoArg, EmptyObj, 200, [count |-> Len(books)])
    /\ UNCHANGED <<NotBooks, deleted>>

\* PATCH /api/books/increase-prices
IncreasePrices(body) ==
    /\ Handles("books")
    /\ IF ~Has(body, "percentage")
       THEN /\ last' = Reply("increasePrices", NoArg, body, 400, NoRes)
            /\ UNCHANGED books
       ELSE /\ books' = [i \in 1..Len(books) |-> SetField(books[i], "price",
                    ScalePrice(books[i].price, body.percentage))]
            /\ last' = Reply("increasePrices", NoArg, body, 200,
                    [count |-> Len(books)])
    /\ UNCHANGED <<NotBooks, deleted>>

\* book.inStock as a filter predicate (undefined is falsy)
InStock(book) == "inStock" \in DOMAIN book /\ book.inStock

\* The bulk deletes: books.length = 0; books.push(...kept), with the count
\* removed and the ids that went.
BulkDelete(op, arg, body, kept, res) ==
    /\ books' = kept
    /\ deleted' = deleted \cup (IdSet(books) \ IdSet(kept))
    /\ last' = Reply(op, arg, body, 200,
            [deletedCount |-> Len(books) - Len(kept)] @@ res)

\* DELETE /api/books/out-of-stock
DeleteOutOfStock ==
    /\ Handles("books")
    /\ LET booksInStock == SelectSeq(books, InStock)
       IN  BulkDelete("deleteOutOfStock", NoArg, EmptyObj, booksInStock,
                [remaining |-> Len(booksInStock)])
    /\ UNCHANGED NotBooks

\* ids.includes(x)
Includes(ids, x) == \E i \in 1..Len(ids) : ids[i] = x

\* Mutant of DeletedIds: the requested ids some book still has.
StillHeld(ids, coll) ==
    SelectSeq(ids, LAMBDA id : \E i \in 1..Len(coll) : coll[i].id = id)

\* ids.filter((id) => !books.some((b) => b.id === id)), on the books left.
DeletedIds(ids, coll) ==
    SelectSeq(ids, LAMBDA id : ~\E i \in 1..Len(coll) : coll[i].id = id)

DeleteBatchBodies == { [ids |-> <<3, 9>>], [ids |-> <<1, 2, 3>>], EmptyObj }

\* DELETE /api/books/batch
DeleteBooksBatch(body) ==
    /\ Handles("books")
    /\ IF ~Has(body, "ids")
       THEN /\ last' = Reply("deleteBooksBatch", NoArg, body, 400, NoRes)
            /\ UNCHANGED <<books, deleted>>
       ELSE LET NotListed(book) == ~Includes(body.ids, book.id)
                remainingBooks == SelectSeq(books, NotListed)
            IN  BulkDelete("deleteBooksBatch", NoArg, body, remainingBooks,
                    [deletedIds |-> DeletedIds(body.ids, remainingBooks)])
    /\ UNCHANGED NotBooks

YearParams == { <<"1", "9", "7", "0">>, <<"x">> }

\* DELETE /api/books/before/:year : book.year >= year keeps a book; the
\* comparison is false when year is NaN or book.year is undefined.
DeleteBefore(yearp) ==
    /\ Handles("books")
    /\ LET year == ParseInt(yearp)
           NotBefore(book) ==
               ~year.nan /\ "year" \in DOMAIN book /\ book.year >= year.val
           remainingBooks == SelectSeq(books, NotBefore)
       IN  BulkDelete("deleteBefore", yearp, EmptyObj, remainingBooks,
                [remaining |-> Len(remainingBooks)])
    /\ UNCHANGED NotBooks

\* Mutant of Paginate: pages counted from 0.
PaginateFromZero(coll, pagep, limitp) ==
    LET page       == NumOr(ParseInt(pagep), 1)
        limit      == NumOr(ParseInt(limitp), 10)
        startIndex == page * limit
        endIndex   == startIndex + limit
    IN  [data |-> JsSlice(coll, startIndex, endIndex),
         pagination |-> [currentPage |-> page,
                         totalPages |-> CeilDiv(Len(coll), limit),
                         totalItems |-> Len(coll),
                         itemsPerPage |-> limit]]

\* The pagination branch of GET /api/books, for the query strings page and
\* limit (<<>> when the parameter is absent).
Paginate(coll, pagep, limitp) ==
    LET page       == NumOr(ParseInt(pagep), 1)
        limit      == NumOr(ParseInt(limitp), 10)
        startIndex == (page - 1) * limit
        endIndex   == startIndex + limit
    IN  [data |-> JsSlice(coll, startIndex, endIndex),
         pagination |-> [currentPage |-> page,
                         totalPages |-> CeilDiv(Len(coll), limit),
                         totalItems |-> Len(coll),
                         itemsPerPage |-> limit]]

\* Query strings of GET /api/books: page and limit, absent when <<>>.
PageQueries == {
    [page |-> <<>>, limit |-> <<>>],
    [page |-> <<"1">>, limit |-> <<"2">>],
    [page |-> <<"2">>, limit |-> <<"2">>],
    [page |-> <<"3">>, limit |-> <<"2">>],
    [page |-> <<"2", "x">>, limit |-> <<"1">>],
    [page |-> <<>>, limit |-> <<"3">>],
    [page |-> <<"1">>, limit |-> <<>>],
    [page |-> <<"0">>, limit |-> <<"2">>],
    [page |-> <<"1">>, limit |-> <<"0">>],
    [page |-> <<"-", "1">>, limit |-> <<"2">>],
    [page |-> <<"1">>, limit |-> <<"-", "1">>] }

\* sortBy, order and inStock of the query string ("" when absent).
SortQueries == {
    [sortBy |-> "", order |-> "", inStock |-> ""],
    [sortBy |-> "year", order |-> "asc", inStock |-> ""],
    [sortBy |-> "year", order |-> "desc", inStock |-> ""],
    [sortBy |-> "rating", order |-> "", inStock |-> "true"],
    [sortBy |-> "rating", order |-> "desc", inStock |-> ""],
    [sortBy |-> "", order |-> "", inStock |-> "true"],
    [sortBy |-> "", order |-> "desc", inStock |-> "false"],
    [sortBy |-> "", order |-> "", inStock |-> "1"] }

\* The query strings of GET /api/books: pagination alone, sorting and
\* filtering alone, and pagination together with sorting.
BookQueries ==
    { pq @@ [sortBy |-> "", order |-> "", inStock |-> ""] : pq \in PageQueries }
    \cup { [page |-> <<>>, limit |-> <<>>] @@ sq : sq \in SortQueries }
    \cup { [page |-> <<"1">>, limit |-> <<"2">>, sortBy |-> "year",
            order |-> "desc", inStock |-> ""] }

\* order === "asc" ? (a[f] > b[f] ? 1 : -1) : (a[f] < b[f] ? 1 : -1), where
\* a comparison with undefined is false.
Compare(a, b, sortBy, order) ==
    IF order = "asc"
    THEN (IF Has(a, sortBy) /\ Has(b, sortBy) /\ a[sortBy] > b[sortBy]
          THEN 1 ELSE -1)
    ELSE (IF Has(a, sortBy) /\ Has(b, sortBy) /\ a[sortBy] < b[sortBy]
          THEN 1 ELSE -1)

\* [...coll].sort(compare).  The comparator never answers 0, so it is not
\* a consistent comparator and the order is the engine's: any arrangement
\* of the records in which the comparator puts no record after its right
\* neighbour.
SortOutcomes(coll, sortBy, order) ==
    { [i \in 1..Len(coll) |-> coll[p[i]]] :
        p \in { q \in Permutations(1..Len(coll)) :
                  \A i \in 1..(Len(coll) - 1) :
                      Compare(coll[q[i]], coll[q[i + 1]], sortBy, order) < 0 } }

\* b.inStock === inStock, for the stored boolean (or undefined)
StockIs(book, inStock) == Has(book, "inStock") /\ book.inStock = inStock

\* Mutant of StoredAfterSort: the sort is done on the stored array.
SortedInPlace(stored, sorted) == sorted

\* const sortedBooks = [...books]; sortedBooks.sort(...): the array sorted
\* is a copy, and the stored array is as it was.
StoredAfterSort(stored, sorted) == stored

\* GET /api/books
ListBooks(q) ==
    /\ Handles("books")
    /\ IF q.page # <<>> \/ q.limit # <<>>
       THEN /\ last' = Reply("listBooks", NoArg, q, 200,
                           Paginate(books, q.page, q.limit))
            /\ UNCHANGED books
       ELSE IF q.sortBy # ""
       THEN \E sortedBooks \in SortOutcomes(books, q.sortBy,
                                IF q.order = "" THEN "asc" ELSE q.order) :
                /\ books' = StoredAfterSort(books, sortedBooks)
                /\ last' = Reply("listBooks", NoArg, q, 200,
                                 [data |-> sortedBooks])
       ELSE IF q.inStock # ""
       THEN LET Wanted(b) == StockIs(b, q.inStock = "true")
            IN  /\ last' = Reply("listBooks", NoArg, q, 200,
                                 [data |-> SelectSeq(books, Wanted)])
                /\ UNCHANGED books
       ELSE /\ last' = Reply("listBooks", NoArg, q, 200, [data |-> books])
            /\ UNCHANGED books
    /\ UNCHANGED <<NotBooks, deleted>>

\* The letters toLowerCase changes (the texts of the model are ASCII).
UpperCase == "ABCDEFGHIJKLMNOPQRSTUVWXYZ"
LowerCase == "abcdefghijklmnopqrstuvwxyz"

LowerChar(c) ==
    IF \E i \in 1..Len(UpperCase) : SubSeq(UpperCase, i, i) = c
    THEN LET i == CHOOSE k \in 1..Len(UpperCase) : SubSeq(UpperCase, k, k) = c
         IN  SubSeq(LowerCase, i, i)
    ELSE c

\* s.toLowerCase()
RECURSIVE ToLowerCase(_)
ToLowerCase(s) ==
    IF s = "" THEN ""
    ELSE LowerChar(SubSeq(s, 1, 1)) \o ToLowerCase(SubSeq(s, 2, Len(s)))

\* s.includes(sub)
StrIncludes(s, sub) ==
    \E i \in 1..(Len(s) - Len(sub) + 1) : SubSeq(s, i, i + Len(sub) - 1) = sub

\* parseFloat(s), in hundredths: an optional sign, digits, and an optional
\* fraction, of which two digits are kept (the parameters of the model
\* have no more); NaN when there is no digit.
ParseFloat(s) ==
    LET neg   == s # <<>> /\ Head(s) = "-"
        rest  == IF s # <<>> /\ Head(s) \in {"-", "+"} THEN Tail(s) ELSE s
        k     == DigitPrefixLen(rest)
        after == SubSeq(rest, k + 1, Len(rest))
        frac  == IF after # <<>> /\ Head(after) = "." THEN Tail(after) ELSE <<>>
        m     == DigitPrefixLen(frac)
        tens  == IF m >= 1 THEN DigitVal(frac[1]) ELSE 0
        units == IF m >= 2 THEN DigitVal(frac[2]) ELSE 0
        v     == 100 * DigitsValue(SubSeq(rest, 1, k), 0) + 10 * tens + units
    IN  IF k = 0 /\ m = 0 THEN NaN ELSE Num(IF neg THEN 0 - v ELSE v)

\* An element of a JSON array of strings: an object with the key value,
\* which null (what JSON.stringify writes for undefined) does not have.
JsonOf(rec, f) == IF Has(rec, f) THEN [value |-> rec[f]] ELSE EmptyObj

\* coll.map((r) => r.f), as the response carries it.
Project(coll, f) == [i \in 1..Len(coll) |-> JsonOf(coll[i], f)]

\* Mutant of SpreadSet: the values as they are, duplicates included.
SpreadAll(values) == values

\* [...new Set(values)] : a Set keeps a value the first time it is added
\* and iterates in insertion order.
RECURSIVE SpreadSet(_)
SpreadSet(values) ==
    IF values = <<>> THEN <<>>
    ELSE LET n    == Len(values)
             init == SpreadSet(SubSeq(values, 1, n - 1))
         IN  IF \E i \in 1..Len(init) : init[i] = values[n]
             THEN init
             ELSE Append(init, values[n])

\* A read that answers the books a predicate keeps.
AnswerBooks(op, arg, q, data) ==
    /\ last' = Reply(op, arg, q, 200, [data |-> data])
    /\ UNCHANGED <<books, NotBooks, deleted>>

\* GET /api/books/genres
GetGenres ==
    /\ Handles("books")
    /\ LET genres       == Project(books, "genre")
           uniqueGenres == SpreadSet(genres)
       IN  AnswerBooks("genres", NoArg, EmptyObj, uniqueGenres)

\* A read whose handler throws: Express answers 500.
AnswerError(op, arg, q) ==
    /\ last' = Reply(op, arg, q, 500, NoRes)
    /\ UNCHANGED <<books, NotBooks, deleted>>

\* GET /api/books/count
GetCount ==
    /\ Handles("books")
    /\ AnswerBooks("count", NoArg, EmptyObj, [total |-> Len(books)])

\* coll[i] as res.json sends it: the record, nothing for undefined.
JsonAt(coll, i) == IF i \in 1..Len(coll) THEN coll[i] ELSE NoRes

\* GET /api/books/first
GetFirst ==
    /\ Handles("books")
    /\ AnswerBooks("first", NoArg, EmptyObj, JsonAt(books, 1))

\* GET /api/books/last
GetLast ==
    /\ Handles("books")
    /\ AnswerBooks("last", NoArg, EmptyObj, JsonAt(books, Len(books)))

\* coll.reduce((sum, r) => sum + r.f, 0): NaN as soon as a record has no f.
RECURSIVE SumField(_, _)
SumField(coll, f) ==
    IF coll = <<>> THEN Num(0)
    ELSE LET rest == SumField(Tail(coll), f)
         IN  IF rest.nan \/ ~Has(Head(coll), f) THEN NaN
             ELSE Num(Head(coll)[f] + rest.val)

\* The integers nearest to s / n; both neighbours when s / n lies half
\* way, where the binary value of the quotient decides.
Nearest(s, n) ==
    LET q == s \div n
        r == s % n
    IN  IF 2 * r < n THEN {q} ELSE IF 2 * r > n THEN {q + 1} ELSE {q, q + 1}

\* parseFloat((sum / total).toFixed(2)), in hundredths; scale is the
\* number of hundredths in a unit of sum.  NaN for a NaN sum and for 0 / 0.
Averages(sum, total, scale) ==
    IF sum.nan \/ total = 0 THEN {NaN}
    ELSE { Num(a) : a \in Nearest(sum.val * scale, total) }

\* book.year < old.year (false when a year is undefined)
Earlier(cur, acc) ==
    Has(cur, "year") /\ Has(acc, "year") /\ cur.year < acc.year

\* book.year > recent.year (false when a year is undefined)
Later(cur, acc) ==
    Has(cur, "year") /\ Has(acc, "year") /\ cur.year > acc.year

\* coll.reduce((acc, r) => r.year < acc.year ? r : acc) from element i on,
\* or with > when newest.
RECURSIVE ReduceYear(_, _, _, _)
ReduceYear(coll, i, acc, newest) ==
    IF i > Len(coll) THEN acc
    ELSE ReduceYear(coll, i + 1,
                    IF (IF newest THEN Later(coll[i], acc)
                        ELSE Earlier(coll[i], acc))
                    THEN coll[i] ELSE acc,
                    newest)

\* reduce without initial value, on a collection that is not empty: the
\* first element is the initial accumulator.
Oldest(coll) == ReduceYear(coll, 2, coll[1], FALSE)
Newest(coll) == ReduceYear(coll, 2, coll[1], TRUE)

\* GET /api/books/stats.  reduce without initial value throws a TypeError
\* on an empty array.
GetStats ==
    /\ Handles("books")
    /\ IF books = <<>>
       THEN AnswerError("stats", NoArg, EmptyObj)
       ELSE LET total       == Len(books)
                available   == Len(SelectSeq(books, InStock))
                unavailable == Len(SelectSeq(books, LAMBDA b : ~InStock(b)))
                totalPrice  == SumField(books, "price")
                totalRating == SumField(books, "rating")
            IN  \E averagePrice \in Averages(totalPrice, total, 1),
                   averageRating \in Averages(totalRating, total, 100) :
                    AnswerBooks("stats", NoArg, EmptyObj,
                        [total |-> total, available |-> available,
                         unavailable |-> unavailable,
                         averagePrice |-> averagePrice,
                         averageRating |-> averageRating,
                         oldestBook |-> JsonOf(Oldest(books), "title"),
                         newestBook |-> JsonOf(Newest(books), "title")])

\* GET /api/books/available
GetAvailable ==
    /\ Handles("books")
    /\ AnswerBooks("available", NoArg, EmptyObj, SelectSeq(books, InStock))

\* book.year < 2000 (false for undefined)
IsClassic(book) == Has(book, "year") /\ book.year < 2000

\* GET /api/books/classics
GetClassics ==
    /\ Handles("books")
    /\ AnswerBooks("classics", NoArg, EmptyObj, SelectSeq(books, IsClassic))

\* book.rating >= 4 (false for undefined)
IsTopRated(book) == Has(book, "rating") /\ book.rating >= 4

\* GET /api/books/top-rated
GetTopRated ==
    /\ Handles("books")
    /\ AnswerBooks("topRated", NoArg, EmptyObj, SelectSeq(books, IsTopRated))

\* book[f].toLowerCase() throws a TypeError for some record of coll.
LowerThrows(coll, f) == \E i \in 1..Len(coll) : ~Has(coll[i], f)

GenreParams == { "roman", "FANTASY", "x" }

\* GET /api/books/genre/:genre
GetByGenre(genre) ==
    /\ Handles("books")
    /\ IF LowerThrows(books, "genre")
       THEN AnswerError("byGenre", genre, EmptyObj)
       ELSE LET Same(book) == ToLowerCase(book.genre) = ToLowerCase(genre)
            IN  AnswerBooks("byGenre", genre, EmptyObj, SelectSeq(books, Same))

YearReadParams == { <<"1", "9", "6", "5">>, <<"0">>, <<"x">> }

\* GET /api/books/year/:year
GetByYear(yearp) ==
    /\ Handles("books")
    /\ LET year == ParseInt(yearp)
           OfYear(book) == Has(book, "year") /\ ~year.nan /\ book.year = year.val
       IN  AnswerBooks("byYear", yearp, EmptyObj, SelectSeq(books, OfYear))

PriceParams == {
    [min |-> <<"9">>, max |-> <<"1", "2", ".", "5">>],
    [min |-> <<"0">>, max |-> <<"9", ".", "9", "9">>],
    [min |-> <<"x">>, max |-> <<"5", "0">>] }

\* GET /api/books/price/:min/:max
GetByPrice(range) ==
    /\ Handles("books")
    /\ LET min == ParseFloat(range.min)
           max == ParseFloat(range.max)
           Within(book) == /\ ~min.nan /\ ~max.nan
                           /\ book.price >= min.val /\ book.price <= max.val
       IN  AnswerBooks("byPrice", range, EmptyObj, SelectSeq(books, Within))

\* title, author and genre of the query string ("" when absent).
SearchQueries == {
    [title |-> "", author |-> "", genre |-> ""],
    [title |-> "DU", author |-> "", genre |-> ""],
    [title |-> "", author |-> "o", genre |-> ""],
    [title |-> "", author |-> "", genre |-> "fi"],
    [title |-> "e", author |-> "R", genre |-> "an"],
    [title |-> "harry", author |-> "hugo", genre |-> ""] }

\* results.filter((b) => b[f].toLowerCase().includes(text)), or results
\* itself when the query has no f
Containing(results, f, text) ==
    LET Match(b) == StrIncludes(ToLowerCase(b[f]), ToLowerCase(text))
    IN  IF text = "" THEN results ELSE SelectSeq(results, Match)

\* GET /api/books/search: the three filters one after the other.
SearchBooks(q) ==
    /\ Handles("books")
    /\ IF q.title # "" /\ LowerThrows(books, "title")
       THEN AnswerError("search", NoArg, q)
       ELSE LET byTitle == Containing(books, "title", q.title)
            IN  IF q.author # "" /\ LowerThrows(byTitle, "author")
                THEN AnswerError("search", NoArg, q)
                ELSE LET byAuthor == Containing(byTitle, "author", q.author)
                     IN  IF q.genre # "" /\ LowerThrows(byAuthor, "genre")
                         THEN AnswerError("search", NoArg, q)
                         ELSE AnswerBooks("search", NoArg, q,
                                Containing(byAuthor, "genre", q.genre))

(***************************************************************************)
(* tp3.1: authors.                                                         *)
(***************************************************************************)
AuthorsSeed == <<
    [id |-> 1, firstName |-> "Victor", lastName |-> "Hugo",
     nationality |-> "Francaise", birthYear |-> 1802, isAlive |-> FALSE],
    [id |-> 2, firstName |-> "Albert", lastName |-> "Camus",
     nationality |-> "Francaise", birthYear |-> 1913, isAlive |-> FALSE],
    [id |-> 3, firstName |-> "J.K.", lastName |-> "Rowling",
     nationality |-> "Britannique", birthYear |-> 1965, isAlive |-> TRUE],
    [id |-> 4, firstName |-> "George", lastName |-> "Orwell",
     nationality |-> "Britannique", birthYear |-> 1903, isAlive |-> FALSE],
    [id |-> 5, firstName |-> "Frank", lastName |-> "Herbert",
     nationality |-> "Americaine", birthYear |-> 1920, isAlive |-> FALSE],
    [id |-> 6, firstName |-> "J.R.R.", lastName |-> "Tolkien",
     nationality |-> "Britannique", birthYear |-> 1892, isAlive |-> FALSE] >>

AuthorBodies == {
    [firstName |-> "Jane", lastName |-> "Austen"],
    [firstName |-> "Jane"],
    [firstName |-> "Jules", lastName |-> ""],
    [id |-> 2, nationality |-> "", isAlive |-> TRUE],
    [firstName |-> "Stephen", lastName |-> "King",
     nationality |-> "Americaine", birthYear |-> 1947, isAlive |-> TRUE] }

AuthorIdParams == { <<"1">>, <<"6">>, <<"7">>, <<"3", "x">>, <<"x">> }

NotAuthors == <<svc, books, categories, games, notes, Db>>

\* !firstName || !lastName
AuthorInvalid(body) ==
    ~TruthyStr(body, "firstName") \/ ~TruthyStr(body, "lastName")

\* The record POST /api/authors builds.
NewAuthor(coll, body) ==
    [id |-> NewId(coll), firstName |-> body.firstName,
     lastName |-> body.lastName,
     nationality |-> OrElse(body, "nationality", ""),
     birthYear |-> OrElse(body, "birthYear", 0),
     isAlive |-> OrElse(body, "isAlive", TRUE)]

\* POST /api/authors
PostAuthor(body) ==
    /\ Handles("authors")
    /\ IF AuthorInvalid(body)
       THEN /\ last' = Reply("postAuthor", NoArg, body, 400, NoRes)
            /\ UNCHANGED authors
       ELSE /\ authors' = Append(authors, NewAuthor(authors, body))
            /\ last' = Reply("postAuthor", NoArg, body, 201,
                    NewAuthor(authors, body))
    /\ UNCHANGED <<NotAuthors, deleted>>

\* GET /api/authors/:id
GetAuthor(idp) ==
    /\ Handles("authors")
    /\ LET r == GetById(authors, ParseInt(idp))
       IN  last' = Reply("getAuthor", idp, EmptyObj, r.status, r.res)
    /\ UNCHANGED <<authors, NotAuthors, deleted>>

AuthorFields == {"firstName", "lastName", "nationality", "birthYear", "isAlive"}

\* PUT /api/authors/:id
PutAuthor(idp, body) ==
    /\ Handles("authors")
    /\ LET id    == ParseInt(idp)
           index == FindIndex(authors, id)
       IN  IF index = 0
           THEN /\ last' = Reply("putAuthor", idp, body, 404, NoRes)
                /\ UNCHANGED authors
           ELSE IF AuthorInvalid(body)
           THEN /\ last' = Reply("putAuthor", idp, body, 400, NoRes)
                /\ UNCHANGED authors
           ELSE /\ authors' = [authors EXCEPT
                        ![index] = Pick([id |-> id.val], body, AuthorFields)]
                /\ last' = Reply("putAuthor", idp, body, 200, authors'[index])
    /\ UNCHANGED <<NotAuthors, deleted>>

\* PATCH /api/authors/:id
PatchAuthor(idp, body) ==
    /\ Handles("authors")
    /\ LET id    == ParseInt(idp)
           index == FindIndex(authors, id)
       IN  IF index = 0
           THEN /\ last' = Reply("patchAuthor", idp, body, 404, NoRes)
                /\ UNCHANGED authors
           ELSE /\ authors' = [authors EXCEPT
                        ![index] = SpreadWithId(authors[index], body, id.val)]
                /\ last' = Reply("patchAuthor", idp, body, 200, authors'[index])
    /\ UNCHANGED <<NotAuthors, deleted>>

\* DELETE /api/authors/:id
DeleteAuthor(idp) ==
    /\ Handles("authors")
    /\ LET index == FindIndex(authors, ParseInt(idp))
       IN  IF index = 0
           THEN /\ last' = Reply("deleteAuthor", idp, EmptyObj, 404, NoRes)
                /\ UNCHANGED <<authors, deleted>>
           ELSE /\ authors' = RemoveAt(authors, index)
                /\ deleted' = deleted \cup {authors[index].id}
                /\ last' = Reply("deleteAuthor", idp, EmptyObj, 200,
                        authors[index])
    /\ UNCHANGED NotAuthors

\* GET /api/authors/nationalities
GetNationalities ==
    /\ Handles("authors")
    /\ LET nationalities       == Project(authors, "nationality")
           uniqueNationalities == SpreadSet(nationalities)
       IN  last' = Reply("nationalities", NoArg, EmptyObj, 200,
                         [data |-> uniqueNationalities])
    /\ UNCHANGED <<authors, NotAuthors, deleted>>

(***************************************************************************)
(* tp3.1: categories.                                                      *)
(***************************************************************************)
CategoriesSeed == <<
    [id |-> 1, name |-> "Roman",
     description |-> "Romans classiques et contemporains", bookCount |-> 3],
    [id |-> 2, name |-> "Fantasy",
     description |-> "Mondes imaginaires et magie", bookCount |-> 2],
    [id |-> 3, name |-> "Science-Fiction",
     description |-> "Exploration de futurs possibles et technologies",
     bookCount |-> 1],
    [id |-> 4, name |-> "Aventure",
     description |-> "Recits d'aventures et d'exploration", bookCount |-> 2] >>

CategoryBodies == {
    [name |-> "Horreur"],
    [description |-> "Sans nom"],
    [name |-> "", description |-> "Nom vide"],
    [id |-> 1, name |-> "Polar", description |-> "Romans policiers",
     bookCount |-> 7] }

CategoryIdParams == { <<"1">>, <<"4">>, <<"5">>, <<"2", "x">>, <<"x">> }

NotCategories == <<svc, books, authors, games, notes, Db>>

\* !name
CategoryInvalid(body) == ~TruthyStr(body, "name")

\* The record POST /api/categories builds.
NewCategory(coll, body) ==
    [id |-> NewId(coll), name |-> body.name,
     description |-> OrElse(body, "description", ""), bookCount |-> 0]

\* POST /api/categories
PostCategory(body) ==
    /\ Handles("categories")
    /\ IF CategoryInvalid(body)
       THEN /\ last' = Reply("postCategory", NoArg, body, 400, NoRes)
            /\ UNCHANGED categories
       ELSE /\ categories' = Append(categories, NewCategory(categories, body))
            /\ last' = Reply("postCategory", NoArg, body, 201,
                    NewCategory(categories, body))
    /\ UNCHANGED <<NotCategories, deleted>>

\* GET /api/categories/:id
GetCategory(idp) ==
    /\ Handles("categories")
    /\ LET r == GetById(categories, ParseInt(idp))
       IN  last' = Reply("getCategory", idp, EmptyObj, r.status, r.res)
    /\ UNCHANGED <<categories, NotCategories, deleted>>

CategoryFields == {"name", "description", "bookCount"}

\* PUT /api/categories/:id
PutCategory(idp, body) ==
    /\ Handles("categories")
    /\ LET id    == ParseInt(idp)
           index == FindIndex(categories, id)
       IN  IF index = 0
           THEN /\ last' = Reply("putCategory", idp, body, 404, NoRes)
                /\ UNCHANGED categories
           ELSE IF CategoryInvalid(body)
           THEN /\ last' = Reply("putCategory", idp, body, 400, NoRes)
                /\ UNCHANGED categories
           ELSE /\ categories' = [categories EXCEPT
                        ![index] = Pick([id |-> id.val], body, CategoryFields)]
                /\ last' = Reply("putCategory", idp, body, 200,
                        categories'[index])
    /\ UNCHANGED <<NotCategories, deleted>>

\* DELETE /api/categories/:id
DeleteCategory(idp) ==
    /\ Handles("categories")
    /\ LET index == FindIndex(categories, ParseInt(idp))
       IN  IF index = 0
           THEN /\ last' = Reply("deleteCategory", idp, EmptyObj, 404, NoRes)
                /\ UNCHANGED <<categories, deleted>>
           ELSE /\ categories' = RemoveAt(categories, index)
                /\ deleted' = deleted \cup {categories[index].id}
                /\ last' = Reply("deleteCategory", idp, EmptyObj, 200,
                        categories[index])
    /\ UNCHANGED NotCategories

(***************************************************************************)
(* tp3: games.  index.ts holds the write routes (lines 1-200) and the read *)
(* routes (lines 210-533) of the games exercise; they are modelled as the  *)
(* one games service on one array.                                         *)
(***************************************************************************)
GamesSeed == <<
    [id |-> 1, title |-> "valorant", platform |-> "PC", year |-> 2020,
     isFavorite |-> TRUE],
    [id |-> 2, title |-> "Genshin Impact", platform |-> "PC", year |-> 2020,
     isFavorite |-> FALSE],
    [id |-> 3, title |-> "minecraft", platform |-> "Multi-platform",
     year |-> 2011, isFavorite |-> TRUE],
    [id |-> 4, title |-> "pacman", platform |-> "Arcade", year |-> 1980,
     isFavorite |-> TRUE],
    [id |-> 5, title |-> "The Legend of Zelda: Ocarina of Time",
     platform |-> "Nintendo 64", year |-> 1998, isFavorite |-> TRUE] >>

GameBodies == {
    [title |-> "Tetris", platform |-> "Game Boy"],
    [title |-> "X"],
    [title |-> "", platform |-> "PC", year |-> 1999],
    [id |-> 1, year |-> 0, isFavorite |-> FALSE],
    [title |-> "Pong", platform |-> "Arcade", year |-> 1972],
    [title |-> "Doom", platform |-> "PC", year |-> 1993, isFavorite |-> TRUE] }

GameIdParams == { <<"1">>, <<"5">>, <<"6">>, <<"1", "x">> }

NotGames == <<svc, books, authors, categories, notes, Db>>

\* games.length + 1
LengthPlusOne(coll) == Len(coll) + 1

\* !title || !platform
GameInvalid(body) ==
    ~TruthyStr(body, "title") \/ ~TruthyStr(body, "platform")

\* The record POST /api/games builds: year as the body gives it,
\* isFavorite || false.
NewGame(coll, body) ==
    Pick([id |-> LengthPlusOne(coll), isFavorite |-> TruthyBool(body, "isFavorite")],
         body, {"title", "platform", "year"})

\* POST /api/games : a missing title or platform is answered 404.
PostGame(body) ==
    /\ Handles("games")
    /\ IF GameInvalid(body)
       THEN /\ last' = Reply("postGame", NoArg, body, 404, NoRes)
            /\ UNCHANGED games
       ELSE /\ games' = Append(games, NewGame(games, body))
            /\ last' = Reply("postGame", NoArg, body, 201, NewGame(games, body))
    /\ UNCHANGED <<NotGames, deleted>>

\* newGames.map((game) => ({ ...game, id: games.length + 1 })): every
\* element gets the id computed from the array before any is pushed.
GamesWithId(coll, newGames) ==
    [i \in 1..Len(newGames) |->
        SpreadWithId(newGames[i], EmptyObj, LengthPlusOne(coll))]

GameBatchBodies == {
    [isArray |-> TRUE, items |-> <<
        [title |-> "Tetris", platform |-> "Game Boy"],
        [title |-> "X"] >>],
    [isArray |-> TRUE, items |-> <<[title |-> "Doom", platform |-> "PC",
                                    year |-> 1993, isFavorite |-> TRUE]>>],
    [isArray |-> TRUE, items |-> <<
        [title |-> "Tetris", platform |-> "Game Boy"],
        [title |-> "Doom", platform |-> "PC", year |-> 1993,
         isFavorite |-> TRUE] >>],
    [isArray |-> FALSE, items |-> <<>>] }

\* POST /api/games/batch : a body that is no array makes newGames.map
\* throw, which Express answers 500.
PostGamesBatch(body) ==
    /\ Handles("games")
    /\ IF ~body.isArray
       THEN /\ last' = Reply("postGamesBatch", NoArg, body, 500, NoRes)
            /\ UNCHANGED games
       ELSE /\ games' = games \o GamesWithId(games, body.items)
            /\ last' = Reply("postGamesBatch", NoArg, body, 201,
                    [count |-> Len(body.items)])
    /\ UNCHANGED <<NotGames, deleted>>

\* PUT /api/games/:id
PutGame(idp, body) ==
    /\ Handles("games")
    /\ LET gameIndex == FindIndex(games, ToNumber(idp))
       IN  IF gameIndex = 0
           THEN /\ last' = Reply("putGame", idp, body, 404, NoRes)
                /\ UNCHANGED games
           ELSE IF GameInvalid(body) \/ ~TruthyNum(body, "year")
           THEN /\ last' = Reply("putGame", idp, body, 400, NoRes)
                /\ UNCHANGED games
           ELSE /\ games' = [games EXCEPT ![gameIndex] =
                        [id |-> games[gameIndex].id, title |-> body.title,
                         year |-> body.year, platform |-> body.platform,
                         isFavorite |-> TruthyBool(body, "isFavorite")]]
                /\ last' = Reply("putGame", idp, body, 200, games'[gameIndex])
    /\ UNCHANGED <<NotGames, deleted>>

\* Mutant of PatchedGame: the record rebuilt from the body alone, as PUT
\* does.
RebuiltGame(old, body) ==
    Pick([id |-> old.id], body, {"title", "platform", "year", "isFavorite"})

\* { ...old, ...(title && {title}), ...(platform && {platform}),
\*   ...(year && {year}), ...(isFavorite !== undefined && {isFavorite}) }
PatchedGame(old, body) ==
    [f \in (DOMAIN old)
            \cup {g \in {"title", "platform"} : TruthyStr(body, g)}
            \cup {g \in {"year"} : TruthyNum(body, g)}
            \cup {g \in {"isFavorite"} : Has(body, g)} |->
        IF \/ f \in {"title", "platform"} /\ TruthyStr(body, f)
           \/ f = "year" /\ TruthyNum(body, f)
           \/ f = "isFavorite" /\ Has(body, f)
        THEN body[f]
        ELSE old[f]]

\* PATCH /api/games/:id
PatchGame(idp, body) ==
    /\ Handles("games")
    /\ LET gameIndex == FindIndex(games, ToNumber(idp))
       IN  IF gameIndex = 0
           THEN /\ last' = Reply("patchGame", idp, body, 404, NoRes)
                /\ UNCHANGED games
           ELSE /\ games' = [games EXCEPT
                        ![gameIndex] = PatchedGame(games[gameIndex], body)]
                /\ last' = Reply("patchGame", idp, body, 200, games'[gameIndex])
    /\ UNCHANGED <<NotGames, deleted>>

\* PATCH /api/games/:id/favorite
ToggleFavorite(idp) ==
    /\ Handles("games")
    /\ LET gameIndex == FindIndex(games, ToNumber(idp))
       IN  IF gameIndex = 0
           THEN /\ last' = Reply("toggleFavorite", idp, EmptyObj, 404, NoRes)
                /\ UNCHANGED games
           ELSE /\ games' = [games EXCEPT
                        ![gameIndex] = Toggled(@, "isFavorite")]
                /\ last' = Reply("toggleFavorite", idp, EmptyObj, 200,
                        games'[gameIndex])
    /\ UNCHANGED <<NotGames, deleted>>

\* PATCH /api/games/favorite/clear
ClearFavorites ==
    /\ Handles("games")
    /\ games' = [i \in 1..Len(games) |-> SetField(games[i], "isFavorite", FALSE)]
    /\ last' = Reply("clearFavorites", NoArg, EmptyObj, 200, NoRes)
    /\ UNCHANGED <<NotGames, deleted>>

\* DELETE /api/games/:id
DeleteGame(idp) ==
    /\ Handles("games")
    /\ LET gameIndex == FindIndex(games, ToNumber(idp))
       IN  IF gameIndex = 0
           THEN /\ last' = Reply("deleteGame", idp, EmptyObj, 404, NoRes)
                /\ UNCHANGED <<games, deleted>>
           ELSE /\ games' = RemoveAt(games, gameIndex)
                /\ deleted' = deleted \cup {games[gameIndex].id}
                /\ last' = Reply("deleteGame", idp, EmptyObj, 200, NoRes)
    /\ UNCHANGED NotGames

\* { ...game, id: games.length + 1, title: `Copie de ${game.title}` }
DuplicatedGame(coll, game) ==
    [f \in (DOMAIN game) \cup {"id", "title"} |->
        IF f = "id" THEN LengthPlusOne(coll)
        ELSE IF f = "title"
             THEN CopyTitle(OrElse(game, "title", "undefined"))
        ELSE game[f]]

\* POST /api/games/:id/duplicate
DuplicateGame(idp) ==
    /\ Handles("games")
    /\ LET gameIndex == FindIndex(games, ToNumber(idp))
       IN  IF gameIndex = 0
           THEN /\ last' = Reply("duplicateGame", idp, EmptyObj, 404, NoRes)
                /\ UNCHANGED games
           ELSE /\ games' = Append(games, DuplicatedGame(games, games[gameIndex]))
                /\ last' = Reply("duplicateGame", idp, EmptyObj, 201,
                        DuplicatedGame(games, games[gameIndex]))
    /\ UNCHANGED <<NotGames, deleted>>

\* The response of GET /api/games/:id : 400 when the parameter is no
\* number, 404 when no game has the id (the first response sent stands).
GameById(coll, idp) ==
    IF ToNumber(idp).nan THEN [status |-> 400, res |-> NoRes]
    ELSE GetById(coll, ToNumber(idp))

\* GET /api/games/:id
GetGame(idp) ==
    /\ Handles("games")
    /\ LET r     == GameById(games, idp)
           reply == Reply("getGame", idp, EmptyObj, r.status, r.res)
       IN  last' = IF r.status = 404 THEN JsonAgain(reply) ELSE reply
    /\ UNCHANGED <<games, NotGames, deleted>>

\* GET /api/games/:id/title
GetGameTitle(idp) ==
    /\ Handles("games")
    /\ LET r == GameById(games, idp)
       IN  last' = Reply("getGameTitle", idp, EmptyObj, r.status,
                         IF r.status = 200 THEN JsonOf(r.res, "title")
                         ELSE NoRes)
    /\ UNCHANGED <<games, NotGames, deleted>>

\* GET /api/games/stats.  reduce without initial value throws a TypeError
\* on an empty array, which Express answers 500.
GetGameStats ==
    /\ Handles("games")
    /\ IF games = <<>>
       THEN last' = Reply("gameStats", NoArg, EmptyObj, 500, NoRes)
       ELSE LET filterGamesFavorite ==
                    SelectSeq(games, LAMBDA g : TruthyBool(g, "isFavorite"))
                oldGames == Oldest(games)
            IN  last' = Reply("gameStats", NoArg, EmptyObj, 200,
                    [nb_game |-> Len(games),
                     nb_game_favorite |-> Len(filterGamesFavorite),
                     old_game |-> JsonOf(oldGames, "title")])
    /\ UNCHANGED <<games, NotGames, deleted>>

(***************************************************************************)
(* docknotes, in memory: notes, with string ids.                           *)
(***************************************************************************)
NotesSeed == <<
    [id |-> <<"1">>, title |-> "Javascript", color |-> "red",
     content |-> "Apprendre JAVASCRIPT", date |-> "2026-01-19",
     isFavorite |-> TRUE],
    [id |-> <<"2">>, title |-> "Backend", color |-> "blue",
     content |-> "Creer un serveur backend", date |-> "2026-01-14",
     isFavorite |-> FALSE] >>

NoteBodies == {
    [title |-> "Express", content |-> "Routes"],
    [title |-> "X"],
    [title |-> "Vide", content |-> ""],
    [id |-> <<"1">>, color |-> "", isFavorite |-> FALSE],
    [title |-> "SQL", color |-> "green", content |-> "Requetes",
     isFavorite |-> TRUE] }

NoteIdParams == { <<"1">>, <<"2">>, <<"3">>, <<"0", "2">> }

\* new Date(): the time of the request.
Clock == { "2026-02-01" }

NotNotes == <<svc, books, authors, categories, games, Db>>

\* n.id === id for the string of the path
StrId(idp) == [nan |-> FALSE, val |-> idp]

\* !title || !content
NoteInvalid(body) ==
    ~TruthyStr(body, "title") \/ ~TruthyStr(body, "content")

\* x || dflt for a string field
StrOr(body, f, dflt) == IF TruthyStr(body, f) THEN body[f] ELSE dflt

\* The record POST /notes builds.
NewNote(coll, body, now) ==
    [id |-> ToStr(LengthPlusOne(coll)), title |-> body.title,
     color |-> StrOr(body, "color", "red"), content |-> body.content,
     date |-> now, isFavorite |-> TruthyBool(body, "isFavorite")]

\* POST /notes
PostNote(body, now) ==
    /\ Handles("notes")
    /\ IF NoteInvalid(body)
       THEN /\ last' = Reply("postNote", NoArg, body, 400, NoRes)
            /\ UNCHANGED notes
       ELSE /\ notes' = Append(notes, NewNote(notes, body, now))
            /\ last' = Reply("postNote", NoArg, body, 201,
                    NewNote(notes, body, now))
    /\ UNCHANGED <<NotNotes, deleted>>

\* GET /notes/:id : no return after the 404, res.json(note) follows.
GetNote(idp) ==
    /\ Handles("notes")
    /\ LET r     == GetById(notes, StrId(idp))
           reply == Reply("getNote", idp, EmptyObj, r.status, r.res)
       IN  last' = IF r.status = 404 THEN JsonAgain(reply) ELSE reply
    /\ UNCHANGED <<notes, NotNotes, deleted>>

\* PUT /notes/:id
PutNote(idp, body) ==
    /\ Handles("notes")
    /\ LET noteIndex == FindIndex(notes, StrId(idp))
       IN  IF noteIndex = 0
           THEN /\ last' = Reply("putNote", idp, body, 404, NoRes)
                /\ UNCHANGED notes
           ELSE IF NoteInvalid(body) \/ ~TruthyStr(body, "color")
           THEN /\ last' = Reply("putNote", idp, body, 400, NoRes)
                /\ UNCHANGED notes
           ELSE /\ notes' = [notes EXCEPT ![noteIndex] =
                        [id |-> notes[noteIndex].id, title |-> body.title,
                         color |-> body.color, content |-> body.content,
                         date |-> notes[noteIndex].date,
                         isFavorite |-> OrElse(body, "isFavorite", FALSE)]]
                /\ last' = Reply("putNote", idp, body, 200, notes'[noteIndex])
    /\ UNCHANGED <<NotNotes, deleted>>

\* { ...old, ...(title && {title}), ...(color && {color}),
\*   ...(content && {content}), ...(isFavorite !== undefined && {isFavorite}) }
PatchedNote(old, body) ==
    [f \in DOMAIN old |->
        IF \/ f \in {"title", "color", "content"} /\ TruthyStr(body, f)
           \/ f = "isFavorite" /\ Has(body, f)
        THEN body[f]
        ELSE old[f]]

\* PATCH /notes/:id
PatchNote(idp, body) ==
    /\ Handles("notes")
    /\ LET noteIndex == FindIndex(notes, StrId(idp))
       IN  IF noteIndex = 0
           THEN /\ last' = Reply("patchNote", idp, body, 404, NoRes)
                /\ UNCHANGED notes
           ELSE /\ notes' = [notes EXCEPT
                        ![noteIndex] = PatchedNote(notes[noteIndex], body)]
                /\ last' = Reply("patchNote", idp, body, 200, notes'[noteIndex])
    /\ UNCHANGED <<NotNotes, deleted>>

\* DELETE /notes/:id
DeleteNote(idp) ==
    /\ Handles("notes")
    /\ LET noteIndex == FindIndex(notes, StrId(idp))
       IN  IF noteIndex = 0
           THEN /\ last' = Reply("deleteNote", idp, EmptyObj, 404, NoRes)
                /\ UNCHANGED <<notes, deleted>>
           ELSE /\ notes' = RemoveAt(notes, noteIndex)
                /\ deleted' = deleted \cup {notes[noteIndex].id}
                /\ last' = Reply("deleteNote", idp, EmptyObj, 204, NoRes)
    /\ UNCHANGED NotNotes

(***************************************************************************)
(* tp1: the read-only games server.                                        *)
(***************************************************************************)
Tp1GamesSeed == <<
    [id |-> 1, title |-> "valorant", platform |-> "PC", year |-> 2020,
     isFavorite |-> TRUE],
    [id |-> 2, title |-> "Genshin Impact", platform |-> "PC", year |-> 2020,
     isFavorite |-> FALSE],
    [id |-> 3, title |-> "minecraft", platform |-> "Multi-platform",
     year |-> 2011, isFavorite |-> TRUE],
    [id |-> 4, title |-> "pacman", platform |-> "Arcade", year |-> 1980,
     isFavorite |-> TRUE],
    [id |-> 5, title |-> "The Legend of Zelda: Ocarina of Time",
     platform |-> "Nintendo 64", year |-> 1998, isFavorite |-> TRUE] >>

\* game.year <= 2000
IsRetro(game) == Has(game, "year") /\ game.year <= 2000

\* GET /api/games/retro
GetRetro ==
    /\ Handles("tp1")
    /\ last' = Reply("retro", NoArg, EmptyObj, 200,
                     [data |-> SelectSeq(games, IsRetro)])
    /\ UNCHANGED <<games, NotGames, deleted>>

\* GET /api/games/platforms
GetPlatforms ==
    /\ Handles("tp1")
    /\ LET plaforms == SpreadSet(Project(games, "platform"))
       IN  last' = Reply("platforms", NoArg, EmptyObj, 200, [data |-> plaforms])
    /\ UNCHANGED <<games, NotGames, deleted>>

(***************************************************************************)
(* docknotes, persisted variant.  A row is a function from its non-NULL    *)
(* columns to their values: a NULL column is an absent key.  One step of a  *)
(* handler runs its code up to the next await and the statement it awaits. *)
(***************************************************************************)
\* The focus and the in-memory collections, which no persisted route touches.
InMemory == <<svc, books, authors, categories, games, notes>>

\* The tables a server can find when it starts.
DbSeeds == {
    [notes |-> <<>>, categories |-> <<>>],
    [notes |-> <<>>, categories |-> << [id |-> 1, name |-> "Travail"] >>],
    [notes |-> << [id |-> 1, title |-> "Courses", color |-> "red",
                   content |-> "Lait", date |-> "2026-01-01",
                   isFavorite |-> FALSE, category_id |-> 1],
                  [id |-> 2, title |-> "Libre", color |-> "blue",
                   content |-> "Sans", date |-> "2026-01-02",
                   isFavorite |-> TRUE] >>,
     categories |-> << [id |-> 1, name |-> "Travail"] >>] }

DbNoteBodies == {
    EmptyObj,
    [id |-> 7],
    [title |-> "Idee", content |-> "Texte"],
    [color |-> "blue"],
    [title |-> "", isFavorite |-> TRUE],
    [title |-> "Plan", content |-> "Texte", category_id |-> 1],
    [category_id |-> 9] }

DbCategoryBodies == {
    EmptyObj,
    [id |-> 7],
    [name |-> "Maison"],
    [description |-> "Perso"],
    [name |-> "", description |-> "Vide"] }

\* Path parameters of the persisted routes: decimal numerals.
DbIdParams == { <<"1">>, <<"2">> }

RowIds(table) == { table[i].id : i \in 1..Len(table) }

\* SELECT * FROM table WHERE id = ?, then [0] of the result: the row, or
\* undefined, which res.json sends as an empty body.
FirstRow(table, id) ==
    LET rows == SelectSeq(table, LAMBDA r : r.id = id)
    IN  IF rows = <<>> THEN NoRes ELSE rows[1]

\* Mutant of UpdateRows: the statement writes nothing.
RowsUntouched(table, id, body, updates) == table

\* UPDATE table SET f = body.f, ... (f in updates) WHERE id = ?
UpdateRows(table, id, body, updates) ==
    [i \in 1..Len(table) |->
        IF table[i].id = id
        THEN [f \in (DOMAIN table[i]) \cup updates |->
                 IF f \in updates THEN body[f] ELSE table[i][f]]
        ELSE table[i]]

\* DELETE FROM table WHERE id = ?
DeleteRows(table, id) == SelectSeq(table, LAMBDA r : r.id # id)

\* x || null for a string column: the value, or NULL.
OrNull(rec, body, f) == IF TruthyStr(body, f) THEN SetField(rec, f, body[f]) ELSE rec

\* The handler suspended at an await, to be resumed with the statement's
\* result.
Awaiting(op, idp, body) == [n |-> nops', op |-> op, arg |-> idp, body |-> body]

\* !title || !content
DbNoteInvalid(body) ==
    ~TruthyStr(body, "title") \/ ~TruthyStr(body, "content")

\* The row INSERT INTO notes stores: category_id || null.
InsertedNote(id, body, now) ==
    LET row == [id |-> id, title |-> body.title,
                color |-> StrOr(body, "color", "red"),
                content |-> body.content, date |-> now,
                isFavorite |-> OrElse(body, "isFavorite", FALSE)]
    IN  IF TruthyNum(body, "category_id")
        THEN SetField(row, "category_id", body.category_id)
        ELSE row

\* newNote, the object POST /notes answers with.
CreatedNote(id, body, now) ==
    [id |-> id, title |-> body.title, color |-> StrOr(body, "color", "red"),
     content |-> body.content, date |-> now,
     isFavorite |-> OrElse(body, "isFavorite", FALSE)]

\* The foreign key of notes.category_id rejects the value.
ForeignKeyFails(body) ==
    TruthyNum(body, "category_id") /\ body.category_id \notin RowIds(dbCategories)

\* POST /notes.  The handler has no try/catch: when the INSERT is rejected
\* the promise of the handler rejects, and the client gets a 500 or no
\* response at all (status 0); whether the failed INSERT used up an
\* AUTO_INCREMENT value is the engine's choice.
DbPostNote(body, now) ==
    /\ Handles("sql")
    /\ IF DbNoteInvalid(body)
       THEN /\ last' = Reply("dbPostNote", NoArg, body, 400, NoRes)
            /\ UNCHANGED Db
       ELSE /\ sent' = sent + 1
            /\ IF ForeignKeyFails(body)
               THEN /\ \E st \in {500, 0} :
                         last' = Reply("dbPostNote", NoArg, body, st, NoRes)
                    /\ \E used \in {0, 1} :
                         dbSeq' = [dbSeq EXCEPT !.notes = @ + used]
                    /\ UNCHANGED dbNotes
               ELSE /\ dbNotes' = Append(dbNotes,
                                    InsertedNote(dbSeq.notes, body, now))
                    /\ dbSeq' = [dbSeq EXCEPT !.notes = @ + 1]
                    /\ last' = Reply("dbPostNote", NoArg, body, 200,
                                     CreatedNote(dbSeq.notes, body, now))
            /\ UNCHANGED <<dbCategories, pending>>
    /\ UNCHANGED <<InMemory, deleted>>

\* The columns PATCH /notes/:id collects in updates.
NoteUpdates(body) ==
    { f \in {"title", "color", "content", "isFavorite", "category_id"} :
        Has(body, f) }

\* Mutant of NothingToUpdate: the check is gone.
AlwaysSomething(updates) == FALSE

\* updates.length === 0
NothingToUpdate(updates) == updates = {}

\* PATCH /notes/:id up to the UPDATE.  An UPDATE with an empty SET list
\* is a syntax error, and one that breaks the foreign key of a matched
\* row is rejected: both are caught and answered 500.
DbPatchNote(idp, body) ==
    /\ Handles("sql")
    /\ LET updates == NoteUpdates(body)
           id      == ToNumber(idp).val
       IN  IF NothingToUpdate(updates)
           THEN /\ last' = Reply("dbPatchNote", idp, body, 400, NoRes)
                /\ UNCHANGED Db
           ELSE /\ sent' = sent + 1
                /\ IF \/ updates = {}
                      \/ /\ id \in RowIds(dbNotes)
                         /\ "category_id" \in updates
                         /\ ForeignKeyFails(body)
                   THEN /\ last' = Reply("dbPatchNote", idp, body, 500, NoRes)
                        /\ UNCHANGED <<dbNotes, pending>>
                   ELSE IF id \notin RowIds(dbNotes)
                   THEN /\ last' = Reply("dbPatchNote", idp, body, 404, NoRes)
                        /\ UNCHANGED <<dbNotes, pending>>
                   ELSE /\ dbNotes' = UpdateRows(dbNotes, id, body, updates)
                        /\ pending' = pending \cup
                                {Awaiting("dbPatchNote", idp, body)}
                        /\ UNCHANGED last
                /\ UNCHANGED <<dbCategories, dbSeq>>
    /\ UNCHANGED <<InMemory, deleted>>

\* PATCH /notes/:id from the SELECT on: the row read back is the answer.
DbPatchNoteSelect(c) ==
    /\ svc = "sql" /\ c \in pending /\ c.op = "dbPatchNote"
    /\ sent' = sent + 1
    /\ pending' = pending \ {c}
    /\ last' = ReplyTo(c.n, c.op, c.arg, c.body, 200,
                       FirstRow(dbNotes, ToNumber(c.arg).val))
    /\ UNCHANGED <<dbNotes, dbCategories, dbSeq, InMemory, nops, deleted>>

\* DELETE /notes/:id
DbDeleteNote(idp) ==
    /\ Handles("sql")
    /\ sent' = sent + 1
    /\ IF ToNumber(idp).val \notin RowIds(dbNotes)
       THEN /\ last' = Reply("dbDeleteNote", idp, EmptyObj, 404, NoRes)
            /\ UNCHANGED dbNotes
       ELSE /\ dbNotes' = DeleteRows(dbNotes, ToNumber(idp).val)
            /\ last' = Reply("dbDeleteNote", idp, EmptyObj, 204, NoRes)
    /\ UNCHANGED <<dbCategories, dbSeq, pending, InMemory, deleted>>

\* The row INSERT INTO categories stores, which is also newCategory:
\* description || null.
InsertedCategory(id, body) ==
    OrNull([id |-> id, name |-> body.name], body, "description")

\* POST /categories, SQL router
SqlPostCategory(body) ==
    /\ Handles("sql")
    /\ IF ~TruthyStr(body, "name")
       THEN /\ last' = Reply("sqlPostCategory", NoArg, body, 400, NoRes)
            /\ UNCHANGED Db
       ELSE /\ sent' = sent + 1
            /\ dbCategories' = Append(dbCategories,
                                InsertedCategory(dbSeq.categories, body))
            /\ dbSeq' = [dbSeq EXCEPT !.categories = @ + 1]
            /\ last' = Reply("sqlPostCategory", NoArg, body, 201,
                             InsertedCategory(dbSeq.categories, body))
            /\ UNCHANGED <<dbNotes, pending>>
    /\ UNCHANGED <<InMemory, deleted>>

\* The columns PATCH /categories/:id collects in updates (SQL router).
CategoryUpdates(body) == { f \in {"name", "description"} : Has(body, f) }

\* PATCH /categories/:id, SQL router, up to the UPDATE
SqlPatchCategory(idp, body) ==
    /\ Handles("sql")
    /\ LET updates == CategoryUpdates(body)
           id      == ToNumber(idp).val
       IN  IF updates = {}
           THEN /\ last' = Reply("sqlPatchCategory", idp, body, 400, NoRes)
                /\ UNCHANGED Db
           ELSE /\ sent' = sent + 1
                /\ IF id \notin RowIds(dbCategories)
                   THEN /\ last' = Reply("sqlPatchCategory", idp, body, 404,
                                         NoRes)
                        /\ UNCHANGED <<dbCategories, pending>>
                   ELSE /\ dbCategories' =
                                UpdateRows(dbCategories, id, body, updates)
                        /\ pending' = pending \cup
                                {Awaiting("sqlPatchCategory", idp, body)}
                        /\ UNCHANGED last
                /\ UNCHANGED <<dbNotes, dbSeq>>
    /\ UNCHANGED <<InMemory, deleted>>

\* PATCH /categories/:id, SQL router, from the SELECT on
SqlPatchCategorySelect(c) ==
    /\ svc = "sql" /\ c \in pending /\ c.op = "sqlPatchCategory"
    /\ sent' = sent + 1
    /\ pending' = pending \ {c}
    /\ last' = ReplyTo(c.n, c.op, c.arg, c.body, 200,
                       FirstRow(dbCategories, ToNumber(c.arg).val))
    /\ UNCHANGED <<dbNotes, dbCategories, dbSeq, InMemory, nops, deleted>>

\* POST /categories, ORM router: create answers with the stored row.
OrmPostCategory(body) ==
    /\ Handles("orm")
    /\ IF ~TruthyStr(body, "name")
       THEN /\ last' = Reply("ormPostCategory", NoArg, body, 400, NoRes)
            /\ UNCHANGED Db
       ELSE /\ sent' = sent + 1
            /\ dbCategories' = Append(dbCategories,
                                InsertedCategory(dbSeq.categories, body))
            /\ dbSeq' = [dbSeq EXCEPT !.categories = @ + 1]
            /\ last' = Reply("ormPostCategory", NoArg, body, 201,
                             InsertedCategory(dbSeq.categories, body))
            /\ UNCHANGED <<dbNotes, pending>>
    /\ UNCHANGED <<InMemory, deleted>>

\* The keys PATCH /categories/:id puts in data (ORM router).
CategoryData(body) == { f \in {"name", "description"} : Has(body, f) }

\* PATCH /categories/:id, ORM router: update throws when no row has the
\* id, which is caught and answered 500; else it answers the row.
OrmPatchCategory(idp, body) ==
    /\ Handles("orm")
    /\ LET data == CategoryData(body)
           id   == ToNumber(idp).val
       IN  IF data = {}
           THEN /\ last' = Reply("ormPatchCategory", idp, body, 400, NoRes)
                /\ UNCHANGED Db
           ELSE /\ sent' = sent + 1
                /\ IF id \notin RowIds(dbCategories)
                   THEN /\ last' = Reply("ormPatchCategory", idp, body, 500,
                                         NoRes)
                        /\ UNCHANGED dbCategories
                   ELSE /\ dbCategories' =
                                UpdateRows(dbCategories, id, body, data)
                        /\ last' = Reply("ormPatchCategory", idp, body, 200,
                                FirstRow(UpdateRows(dbCategories, id, body,
                                                    data), id))
                /\ UNCHANGED <<dbNotes, dbSeq, pending>>
    /\ UNCHANGED <<InMemory, deleted>>

\* Bodies of PUT /notes/:id.
DbPutBodies == {
    [title |-> "Idee", content |-> "Texte"],
    [title |-> "Plan", color |-> "blue", content |-> "Texte"],
    [title |-> "Plan", color |-> "green", content |-> "Neuf",
     isFavorite |-> TRUE, category_id |-> 9] }

\* The row UPDATE notes SET title = ?, color = ?, content = ?,
\* isFavorite = ?, category_id = ? leaves: isFavorite ?? false,
\* category_id || null, id and date as they were.
PutNoteRow(row, body) ==
    LET set == [id |-> row.id, title |-> body.title, color |-> body.color,
                content |-> body.content,
                isFavorite |-> OrElse(body, "isFavorite", FALSE)]
        dated == IF Has(row, "date") THEN SetField(set, "date", row.date) ELSE set
    IN  IF TruthyNum(body, "category_id")
        THEN SetField(dated, "category_id", body.category_id)
        ELSE dated

\* PUT /notes/:id up to the UPDATE.  The number of rows the UPDATE matched
\* is not looked at, and there is no try/catch: an UPDATE the foreign key
\* rejects leaves the client with a 500 or no response (status 0).
DbPutNote(idp, body) ==
    /\ Handles("sql")
    /\ LET id == ToNumber(idp).val
       IN  IF DbNoteInvalid(body) \/ ~TruthyStr(body, "color")
           THEN /\ last' = Reply("dbPutNote", idp, body, 400, NoRes)
                /\ UNCHANGED Db
           ELSE /\ sent' = sent + 1
                /\ IF id \in RowIds(dbNotes) /\ ForeignKeyFails(body)
                   THEN /\ \E st \in {500, 0} :
                             last' = Reply("dbPutNote", idp, body, st, NoRes)
                        /\ UNCHANGED <<dbNotes, pending>>
                   ELSE /\ dbNotes' = [i \in 1..Len(dbNotes) |->
                                IF dbNotes[i].id = id
                                THEN PutNoteRow(dbNotes[i], body)
                                ELSE dbNotes[i]]
                        /\ pending' = pending \cup
                                {Awaiting("dbPutNote", idp, body)}
                        /\ UNCHANGED last
                /\ UNCHANGED <<dbCategories, dbSeq>>
    /\ UNCHANGED <<InMemory, deleted>>

\* SELECT * FROM notes WHERE id = ? : the rows, as res.json(result) of
\* PUT /notes/:id sends them.
RowsOf(table, id) == [rows |-> SelectSeq(table, LAMBDA r : r.id = id)]

\* PUT /notes/:id from the SELECT on: the array read back is the answer.
DbPutNoteSelect(c) ==
    /\ svc = "sql" /\ c \in pending /\ c.op = "dbPutNote"
    /\ sent' = sent + 1
    /\ pending' = pending \ {c}
    /\ last' = ReplyTo(c.n, c.op, c.arg, c.body, 200,
                       RowsOf(dbNotes, ToNumber(c.arg).val))
    /\ UNCHANGED <<dbNotes, dbCategories, dbSeq, InMemory, nops, deleted>>

\* UPDATE categories SET name = ?, description = ? WHERE id = ?
PutCategoryRows(table, id, body) ==
    [i \in 1..Len(table) |->
        IF table[i].id = id THEN InsertedCategory(id, body) ELSE table[i]]

\* PUT /categories/:id, SQL router, up to the UPDATE
SqlPutCategory(idp, body) ==
    /\ Handles("sql")
    /\ LET id == ToNumber(idp).val
       IN  IF ~TruthyStr(body, "name")
           THEN /\ last' = Reply("sqlPutCategory", idp, body, 400, NoRes)
                /\ UNCHANGED Db
           ELSE /\ sent' = sent + 1
                /\ IF id \notin RowIds(dbCategories)
                   THEN /\ last' = Reply("sqlPutCategory", idp, body, 404, NoRes)
                        /\ UNCHANGED <<dbCategories, pending>>
                   ELSE /\ dbCategories' = PutCategoryRows(dbCategories, id, body)
                        /\ pending' = pending \cup
                                {Awaiting("sqlPutCategory", idp, body)}
                        /\ UNCHANGED last
                /\ UNCHANGED <<dbNotes, dbSeq>>
    /\ UNCHANGED <<InMemory, deleted>>

\* PUT /categories/:id, SQL router, from the SELECT on
SqlPutCategorySelect(c) ==
    /\ svc = "sql" /\ c \in pending /\ c.op = "sqlPutCategory"
    /\ sent' = sent + 1
    /\ pending' = pending \ {c}
    /\ last' = ReplyTo(c.n, c.op, c.arg, c.body, 200,
                       FirstRow(dbCategories, ToNumber(c.arg).val))
    /\ UNCHANGED <<dbNotes, dbCategories, dbSeq, InMemory, nops, deleted>>

\* Some note has category_id = id.
Referenced(id) ==
    \E i \in 1..Len(dbNotes) :
        Has(dbNotes[i], "category_id") /\ dbNotes[i].category_id = id

\* DELETE /categories/:id, SQL router.  The MySQL schema declares
\* FOREIGN KEY (category_id) REFERENCES categories(id) with no ON DELETE
\* action: the DELETE of a referenced category is rejected, which is caught
\* and answered 500.
SqlDeleteCategory(idp) ==
    /\ Handles("sql")
    /\ sent' = sent + 1
    /\ LET id == ToNumber(idp).val
       IN  IF id \in RowIds(dbCategories) /\ Referenced(id)
           THEN /\ last' = Reply("sqlDeleteCategory", idp, EmptyObj, 500, NoRes)
                /\ UNCHANGED dbCategories
           ELSE IF id \notin RowIds(dbCategories)
           THEN /\ last' = Reply("sqlDeleteCategory", idp, EmptyObj, 404, NoRes)
                /\ UNCHANGED dbCategories
           ELSE /\ dbCategories' = DeleteRows(dbCategories, id)
                /\ last' = Reply("sqlDeleteCategory", idp, EmptyObj, 204, NoRes)
    /\ UNCHANGED <<dbNotes, dbSeq, pending, InMemory, deleted>>

\* PUT /categories/:id, ORM router: update throws when no row has the id,
\* which is caught and answered 500; else it answers the row.
OrmPutCategory(idp, body) ==
    /\ Handles("orm")
    /\ LET id == ToNumber(idp).val
       IN  IF ~TruthyStr(body, "name")
           THEN /\ last' = Reply("ormPutCategory", idp, body, 400, NoRes)
                /\ UNCHANGED Db
           ELSE /\ sent' = sent + 1
                /\ IF id \notin RowIds(dbCategories)
                   THEN /\ last' = Reply("ormPutCategory", idp, body, 500, NoRes)
                        /\ UNCHANGED dbCategories
                   ELSE /\ dbCategories' = PutCategoryRows(dbCategories, id, body)
                        /\ last' = Reply("ormPutCategory", idp, body, 200,
                                         InsertedCategory(id, body))
                /\ UNCHANGED <<dbNotes, dbSeq, pending>>
    /\ UNCHANGED <<InMemory, deleted>>

\* ON DELETE SET NULL of notes_category_id_fkey
SetNull(table, id) ==
    [i \in 1..Len(table) |->
        IF Has(table[i], "category_id") /\ table[i].category_id = id
        THEN [f \in (DOMAIN table[i]) \ {"category_id"} |-> table[i][f]]
        ELSE table[i]]

\* DELETE /categories/:id, ORM router: delete throws when no row has the
\* id, which is caught and answered 500; else the row goes, the notes that
\* referenced it get a NULL category_id, and the row is the answer.
OrmDeleteCategory(idp) ==
    /\ Handles("orm")
    /\ sent' = sent + 1
    /\ LET id == ToNumber(idp).val
       IN  IF id \notin RowIds(dbCategories)
           THEN /\ last' = Reply("ormDeleteCategory", idp, EmptyObj, 500, NoRes)
                /\ UNCHANGED <<dbCategories, dbNotes>>
           ELSE /\ dbCategories' = DeleteRows(dbCategories, id)
                /\ dbNotes' = SetNull(dbNotes, id)
                /\ last' = Reply("ormDeleteCategory", idp, EmptyObj, 204,
                                 FirstRow(dbCategories, id))
    /\ UNCHANGED <<dbSeq, pending, InMemory, deleted>>

(***************************************************************************)
(* The specification.                                                      *)
(***************************************************************************)
Resources == {"books", "authors", "categories", "games", "notes", "sql",
              "orm", "tp1"}

Init ==
    /\ svc \in Resources
    /\ books = BooksSeed
    /\ authors = AuthorsSeed
    /\ categories = CategoriesSeed
    /\ games = IF svc = "tp1" THEN Tp1GamesSeed ELSE GamesSeed
    /\ notes = NotesSeed
    /\ \E seed \in (IF svc \in {"sql", "orm"} THEN DbSeeds
                     ELSE {[notes |-> <<>>, categories |-> <<>>]}) :
            /\ dbNotes = seed.notes
            /\ dbCategories = seed.categories
            /\ dbSeq = [notes |-> Len(seed.notes) + 1,
                        categories |-> Len(seed.categories) + 1]
    /\ pending = {}
    /\ sent = 0
    /\ nops = 0
    /\ deleted = {}
    /\ last = ReplyTo(0, "start", NoArg, EmptyObj, 0, NoRes)

Next ==
    \/ \E body \in BookBodies : PostBook(body)
    \/ \E idp \in BookIdParams : GetBook(idp)
    \/ \E idp \in BookIdParams : DeleteBook(idp)
    \/ \E body \in BookBatchBodies : PostBooksBatch(body)
    \/ \E idp \in BookIdParams : DuplicateBook(idp)
    \/ \E idp \in WrittenIdParams, body \in BookBodies : PutBook(idp, body)
    \/ \E idp \in WrittenIdParams, body \in BookBodies : PatchBook(idp, body)
    \/ \E idp \in BookIdParams : ToggleStock(idp)
    \/ \E idp \in PricedIdParams, body \in PercentageBodies : Discount(idp, body)
    \/ \E idp \in PricedIdParams, body \in RatingBodies : SetRating(idp, body)
    \/ ClearStock
    \/ \E body \in PercentageBodies : IncreasePrices(body)
    \/ DeleteOutOfStock
    \/ \E body \in DeleteBatchBodies : DeleteBooksBatch(body)
    \/ \E yearp \in YearParams : DeleteBefore(yearp)
    \/ \E q \in BookQueries : ListBooks(q)
    \/ GetAvailable
    \/ GetClassics
    \/ GetTopRated
    \/ \E genre \in GenreParams : GetByGenre(genre)
    \/ \E yearp \in YearReadParams : GetByYear(yearp)
    \/ \E range \in PriceParams : GetByPrice(range)
    \/ \E q \in SearchQueries : SearchBooks(q)
    \/ \E body \in AuthorBodies : PostAuthor(body)
    \/ \E idp \in AuthorIdParams : GetAuthor(idp)
    \/ \E idp \in AuthorIdParams, body \in AuthorBodies : PutAuthor(idp, body)
    \/ \E idp \in AuthorIdParams, body \in AuthorBodies : PatchAuthor(idp, body)
    \/ \E idp \in AuthorIdParams : DeleteAuthor(idp)
    \/ \E body \in CategoryBodies : PostCategory(body)
    \/ \E idp \in CategoryIdParams : GetCategory(idp)
    \/ \E idp \in CategoryIdParams, body \in CategoryBodies : PutCategory(idp, body)
    \/ \E idp \in CategoryIdParams : DeleteCategory(idp)
    \/ \E body \in GameBodies : PostGame(body)
    \/ \E body \in GameBatchBodies : PostGamesBatch(body)
    \/ \E idp \in GameIdParams, body \in GameBodies : PutGame(idp, body)
    \/ \E idp \in GameIdParams, body \in GameBodies : PatchGame(idp, body)
    \/ \E idp \in GameIdParams : ToggleFavorite(idp)
    \/ ClearFavorites
    \/ \E idp \in GameIdParams : DeleteGame(idp)
    \/ \E idp \in GameIdParams : DuplicateGame(idp)
    \/ \E idp \in GameIdParams : GetGame(idp)
    \/ \E idp \in GameIdParams : GetGameTitle(idp)
    \/ GetGameStats
    \/ \E body \in NoteBodies, now \in Clock : PostNote(body, now)
    \/ \E idp \in NoteIdParams : GetNote(idp)
    \/ \E idp \in NoteIdParams, body \in NoteBodies : PutNote(idp, body)
    \/ \E idp \in NoteIdParams, body \in NoteBodies : PatchNote(idp, body)
    \/ \E idp \in NoteIdParams : DeleteNote(idp)
    \/ GetRetro
    \/ GetPlatforms
    \/ GetGenres
    \/ GetCount
    \/ GetFirst
    \/ GetLast
    \/ GetStats
    \/ GetNationalities
    \/ \E body \in DbNoteBodies, now \in Clock : DbPostNote(body, now)
    \/ \E idp \in DbIdParams, body \in DbNoteBodies : DbPatchNote(idp, body)
    \/ \E c \in pending : DbPatchNoteSelect(c)
    \/ \E idp \in DbIdParams : DbDeleteNote(idp)
    \/ \E body \in DbCategoryBodies : SqlPostCategory(body)
    \/ \E idp \in DbIdParams, body \in DbCategoryBodies :
            SqlPatchCategory(idp, body)
    \/ \E c \in pending : SqlPatchCategorySelect(c)
    \/ \E body \in DbCategoryBodies : OrmPostCategory(body)
    \/ \E idp \in DbIdParams, body \in DbCategoryBodies :
            OrmPatchCategory(idp, body)
    \/ \E idp \in DbIdParams, body \in DbPutBodies : DbPutNote(idp, body)
    \/ \E c \in pending : DbPutNoteSelect(c)
    \/ \E idp \in DbIdParams, body \in DbCategoryBodies :
            SqlPutCategory(idp, body)
    \/ \E c \in pending : SqlPutCategorySelect(c)
    \/ \E idp \in DbIdParams : SqlDeleteCategory(idp)
    \/ \E idp \in DbIdParams, body \in DbCategoryBodies :
            OrmPutCategory(idp, body)
    \/ \E idp \in DbIdParams : OrmDeleteCategory(idp)

Spec == Init /\ [][Next]_vars

(***************************************************************************)
(* Properties.                                                             *)
(***************************************************************************)
UniqueIds(coll) == \A i, j \in 1..Len(coll) : coll[i].id = coll[j].id => i = j

\* The single-record create requests, and the collection each appends to.
CreateOps == {"postBook", "postAuthor", "postCategory", "postGame", "postNote"}

\* C1: in the books service (books, authors, categories), whatever requests
\* were handled since the seed, no two records of one collection have the
\* same id.
C1_UniqueIds ==
    UniqueIds(books) /\ UniqueIds(authors) /\ UniqueIds(categories)

\* C1, witness: a book has been created after another was deleted.
C1_CreatedAfterDelete ==
    svc = "books" /\ last.op = "postBook" /\ last.status = 201 /\ deleted # {}

\* C2: in the games service and the in-memory notes service, no two records
\* of the collection have the same id.
C2_UniqueIds == UniqueIds(games) /\ UniqueIds(notes)

\* The requests that update records in place.
UpdateOps == {"putBook", "patchBook", "toggleStock", "discount", "setRating",
              "clearStock", "increasePrices", "putAuthor", "patchAuthor",
              "putCategory", "putGame", "patchGame", "toggleFavorite",
              "clearFavorites", "putNote", "patchNote"}

\* C3: a successful replace, partial update or field-scoped patch leaves the
\* id at every position of every collection as it was, whatever the body
\* carries.
C3_IdsImmutable ==
    [][(last'.op \in UpdateOps /\ last'.status = 200) =>
            /\ Ids(books') = Ids(books)
            /\ Ids(authors') = Ids(authors)
            /\ Ids(categories') = Ids(categories)
            /\ Ids(games') = Ids(games)
            /\ Ids(notes') = Ids(notes)]_vars

\* C3, witness: a book was patched with a body that carries another id.
C3_PatchedWithOtherId ==
    /\ last.op = "patchBook" /\ last.status = 200
    /\ Has(last.body, "id") /\ last.body.id # last.res.id

\* The records a step appends to a collection have ids that are not among
\* the ids deleted so far.
FreshAppended(old, new) ==
    Len(new) > Len(old) =>
        \A k \in (Len(old) + 1)..Len(new) : new[k].id \notin deleted

\* C4: no create, batch create or duplicate gives a record the id of a
\* record that was deleted before.
C4_NoIdReuse ==
    [][/\ FreshAppended(books, books')
       /\ FreshAppended(authors, authors')
       /\ FreshAppended(categories, categories')
       /\ FreshAppended(games, games')
       /\ FreshAppended(notes, notes')]_vars

\* The response of get-by-id for the id a create returned, on the
\* collection the create appended to.  A numeric id travels as String(id).
FetchCreated(op, id) ==
    CASE op = "postBook"     -> GetById(books, ParseInt(ToStr(id)))
      [] op = "postAuthor"   -> GetById(authors, ParseInt(ToStr(id)))
      [] op = "postCategory" -> GetById(categories, ParseInt(ToStr(id)))
      [] op = "postGame"     -> GameById(games, ToStr(id))
      [] op = "postNote"     -> GetById(notes, StrId(id))

\* C5: right after a successful create, get-by-id with the returned id
\* answers 200 with the record the create returned.
C5_RoundTrip ==
    (last.op \in CreateOps /\ last.status = 201) =>
        FetchCreated(last.op, last.res.id) = [status |-> 200, res |-> last.res]

DeleteOps == {"deleteBook", "deleteAuthor", "deleteCategory", "deleteGame",
              "deleteNote"}

\* The response of get-by-id for the path parameter of a delete, on the
\* collections after it.
FetchDeleted(op, idp, b, a, c, g, n) ==
    CASE op = "deleteBook"     -> GetById(b, ParseInt(idp))
      [] op = "deleteAuthor"   -> GetById(a, ParseInt(idp))
      [] op = "deleteCategory" -> GetById(c, ParseInt(idp))
      [] op = "deleteGame"     -> GameById(g, idp)
      [] op = "deleteNote"     -> GetById(n, StrId(idp))

Required(op) ==
    CASE op = "postBook"     -> {"title", "author", "price"}
      [] op = "postAuthor"   -> {"firstName", "lastName"}
      [] op = "postCategory" -> {"name"}
      [] op = "postGame"     -> {"title", "platform"}
      [] op = "postNote"     -> {"title", "content"}

\* A required field is missing from the body, or is the empty string.
LacksRequired(op, body) ==
    \E f \in Required(op) :
        ~Has(body, f) \/ (f # "price" /\ body[f] = "")

\* C7: a create whose body lacks a required field, or carries it empty, is
\* answered 400 and changes no collection.
C7_InvalidCreateRejected ==
    [][(last'.op \in CreateOps /\ LacksRequired(last'.op, last'.body)) =>
            /\ last'.status = 400
            /\ UNCHANGED <<books, authors, categories, games, notes>>]_vars

PatchOps == {"patchBook", "patchAuthor", "patchGame", "patchNote"}

\* The collection a PATCH addresses, and the index its path parameter
\* selects in it.
PatchedColl(op, b, a, g, n) ==
    CASE op = "patchBook"   -> b
      [] op = "patchAuthor" -> a
      [] op = "patchGame"   -> g
      [] op = "patchNote"   -> n

PatchedIndex(op, coll, idp) ==
    CASE op \in {"patchBook", "patchAuthor"} -> FindIndex(coll, ParseInt(idp))
      [] op = "patchGame" -> FindIndex(coll, ToNumber(idp))
      [] op = "patchNote" -> FindIndex(coll, StrId(idp))

\* old -> new keeps every record but the one at index i, which stays at i
\* and keeps every field the body does not carry.
PatchFrame(old, new, i, body) ==
    /\ Len(new) = Len(old)
    /\ \A j \in 1..Len(old) : j # i => new[j] = old[j]
    /\ new[i].id = old[i].id
    /\ \A f \in (DOMAIN old[i]) \ (DOMAIN body) :
            f \in DOMAIN new[i] /\ new[i][f] = old[i][f]

\* C8: a successful PATCH /:id leaves every field absent from the body as
\* it was, every other record unchanged, and the patched record in place.
C8_PatchFrame ==
    [][(last'.op \in PatchOps /\ last'.status = 200) =>
            LET old == PatchedColl(last'.op, books, authors, games, notes)
                new == PatchedColl(last'.op, books', authors', games', notes')
            IN  /\ PatchFrame(old, new,
                        PatchedIndex(last'.op, old, last'.arg), last'.body)
                /\ UNCHANGED categories]_vars

\* C8, witness: a game was patched with a body that carries some of its
\* fields and not others.
C8_PartialPatch ==
    /\ last.op = "patchGame" /\ last.status = 200
    /\ Has(last.body, "isFavorite") /\ ~Has(last.body, "title")

DbPatchOps == {"dbPatchNote", "sqlPatchCategory", "ormPatchCategory"}

\* The fields a persisted PATCH can update.
Updatable(op) ==
    IF op = "dbPatchNote"
    THEN {"title", "color", "content", "isFavorite", "category_id"}
    ELSE {"name", "description"}

\* The request a step receives is a persisted PATCH whose body has none of
\* the updatable fields: it is the request just answered, or the request
\* of the handler just suspended.
EmptyPatchArrives ==
    /\ nops' = nops + 1
    /\ \/ /\ last'.n = nops' /\ last'.op \in DbPatchOps
          /\ (DOMAIN last'.body) \cap Updatable(last'.op) = {}
       \/ \E c \in pending' :
            /\ c.n = nops' /\ c.op \in DbPatchOps
            /\ (DOMAIN c.body) \cap Updatable(c.op) = {}

\* C9: a persisted PATCH (notes, categories by SQL, categories by ORM)
\* whose body has no updatable field is answered 400 in the step that
\* receives it, with no statement sent and every row as it was.
C9_EmptyPatchRejected ==
    [][EmptyPatchArrives =>
            /\ last'.n = nops' /\ last'.status = 400
            /\ sent' = sent
            /\ UNCHANGED <<dbNotes, dbCategories, pending>>]_vars

\* C9, witness: a PATCH with a body that has a key, but no updatable one,
\* was answered 400 while a note with the id is stored.
C9_RejectedOnStoredNote ==
    /\ last.op = "dbPatchNote" /\ last.status = 400
    /\ last.body # EmptyObj
    /\ ToNumber(last.arg).val \in RowIds(dbNotes)

\* The items of coll at the 0-based positions lo .. hi - 1 that exist.
ClampedSlice(coll, lo, hi) ==
    LET from == IF lo < 0 THEN 0 ELSE lo
        to   == IF hi > Len(coll) THEN Len(coll) ELSE hi
    IN  [k \in 1..(to - from) |-> coll[from + k]]

\* The least n with n * s >= total, for s >= 1 : ceil(total / s).
Ceil(total, s) == CHOOSE n \in 0..total : n * s >= total /\ (n = 0 \/ (n - 1) * s < total)

\* Pages 1 .. k of the books for the limit parameter, one after the other.
RECURSIVE PagesUpTo(_, _)
PagesUpTo(k, limitp) ==
    IF k <= 0 THEN <<>>
    ELSE PagesUpTo(k - 1, limitp) \o Paginate(books, ToStr(k), limitp).data

\* What the pagination contract asks of the response to page p, limit s.
PageContract(res, p, s, limitp) ==
    /\ Len(res.data) <= s
    /\ res.data = ClampedSlice(books, (p - 1) * s, (p - 1) * s + s)
    /\ s >= 1 => res.pagination.totalPages = Ceil(Len(books), s)
    /\ PagesUpTo(res.pagination.totalPages, limitp) = books

\* A paginated listing was answered, with page and limit both numeric.
PagedListing ==
    /\ last.op = "listBooks"
    /\ ~ParseInt(last.body.page).nan
    /\ ~ParseInt(last.body.limit).nan

\* C10 (amended): for page p >= 1 and limit s >= 1, the listing holds at
\* most s books, equals the clamped slice [(p-1)s, (p-1)s + s), reports
\* totalPages = ceil(total / s), and pages 1 .. totalPages put end to end
\* give the whole collection.
C10_PaginationFromOne ==
    (PagedListing /\ ParseInt(last.body.page).val >= 1
                  /\ ParseInt(last.body.limit).val >= 1) =>
        PageContract(last.res, ParseInt(last.body.page).val,
                     ParseInt(last.body.limit).val, last.body.limit)

\* C10, witness: page 2 of limit 2 was listed while three books exist, so
\* the slice is clamped to one book.
C10_ClampedPage ==
    /\ PagedListing /\ Len(books) = 3
    /\ ParseInt(last.body.page).val = 2 /\ ParseInt(last.body.limit).val = 2
    /\ Len(last.res.data) = 1

\* C10 as stated: the same for every numeric page and limit.
C10_PaginationAnyValue ==
    PagedListing =>
        PageContract(last.res, ParseInt(last.body.page).val,
                     ParseInt(last.body.limit).val, last.body.limit)

\* The last request was a listing of the books sorted by a field.
SortedListing ==
    /\ last.op = "listBooks"
    /\ last.body.page = <<>> /\ last.body.limit = <<>>
    /\ last.body.sortBy # ""

IsPermutationOf(res, coll) ==
    /\ Len(res) = Len(coll)
    /\ \E p \in Permutations(1..Len(coll)) :
            res = [i \in 1..Len(coll) |-> coll[p[i]]]

\* No two records of res that both have field f are in the wrong order.
OrderedBy(res, f, order) ==
    \A i, j \in 1..Len(res) :
        (i < j /\ Has(res[i], f) /\ Has(res[j], f)) =>
            IF order = "desc" THEN res[i][f] >= res[j][f]
            ELSE res[i][f] <= res[j][f]

\* The values of field f along res.
FieldValues(res, f) ==
    [i \in 1..Len(res) |-> IF Has(res[i], f) THEN <<res[i][f]>> ELSE <<>>]

Reverse(s) == [i \in 1..Len(s) |-> s[Len(s) + 1 - i]]

\* C11: a listing sorted by f is a permutation of the books ordered by f,
\* and the listing in the other direction is its reverse, up to the order
\* of records with equal f.
C11_SortedAndReversed ==
    SortedListing =>
        LET f     == last.body.sortBy
            order == IF last.body.order = "desc" THEN "desc" ELSE "asc"
            other == IF order = "desc" THEN "asc" ELSE "desc"
        IN  /\ IsPermutationOf(last.res.data, books)
            /\ OrderedBy(last.res.data, f, order)
            /\ \A r \in SortOutcomes(books, f, other) :
                    FieldValues(Reverse(r), f) = FieldValues(last.res.data, f)

FilterOps == {"available", "classics", "topRated", "byGenre", "byYear",
              "byPrice", "search", "retro"}

\* Record r satisfies every predicate the filtering read op was given.
Matches(op, arg, q, r) ==
    CASE op = "available" -> Has(r, "inStock") /\ r.inStock
      [] op = "classics"  -> Has(r, "year") /\ r.year < 2000
      [] op = "topRated"  -> Has(r, "rating") /\ r.rating >= 4
      [] op = "retro"     -> Has(r, "year") /\ r.year <= 2000
      [] op = "byGenre"   ->
            Has(r, "genre") /\ ToLowerCase(r.genre) = ToLowerCase(arg)
      [] op = "byYear"    ->
            Has(r, "year") /\ ~ParseInt(arg).nan /\ r.year = ParseInt(arg).val
      [] op = "byPrice"   ->
            /\ ~ParseFloat(arg.min).nan /\ ~ParseFloat(arg.max).nan
            /\ ParseFloat(arg.min).val <= r.price
            /\ r.price <= ParseFloat(arg.max).val
      [] op = "search"    ->
            \A f \in {"title", "author", "genre"} :
                q[f] # "" =>
                    /\ Has(r, f)
                    /\ StrIncludes(ToLowerCase(r[f]), ToLowerCase(q[f]))

\* C12: every filtering read answers exactly the records of the current
\* collection that satisfy all the predicates supplied, each once and in
\* their order in the collection.
C12_FiltersExact ==
    last.op \in FilterOps =>
        /\ last.status = 200
        /\ last.res.data =
                SelectSeq(IF last.op = "retro" THEN games ELSE books,
                          LAMBDA r : Matches(last.op, last.arg, last.body, r))

ToggleOps == {"toggleStock", "toggleFavorite"}

\* The flag a toggle negates, the collection it addresses and the index its
\* path parameter selects.
ToggleFlag(op) == IF op = "toggleStock" THEN "inStock" ELSE "isFavorite"

ToggledColl(op, b, g) == IF op = "toggleStock" THEN b ELSE g

ToggledIndex(op, coll, idp) ==
    IF op = "toggleStock" THEN FindIndex(coll, ParseInt(idp))
    ELSE FindIndex(coll, ToNumber(idp))

\* A step that answers a toggle request.
ToggleStep == nops' = nops + 1 /\ last'.n = nops' /\ last'.op \in ToggleOps

\* old -> new negates the flag f of the record at i and nothing else.
NegatesOnly(old, new, i, f) ==
    /\ Len(new) = Len(old)
    /\ \A j \in 1..Len(old) : j # i => new[j] = old[j]
    /\ f \in DOMAIN new[i]
    /\ new[i][f] = ~(f \in DOMAIN old[i] /\ old[i][f])
    /\ \A g \in ((DOMAIN old[i]) \cup (DOMAIN new[i])) \ {f} :
            g \in DOMAIN old[i] /\ g \in DOMAIN new[i] /\ new[i][g] = old[i][g]

\* C13: a toggle (PATCH /api/games/:id/favorite, PATCH
\* /api/books/:id/toggle-stock) of an existing id negates the flag of that
\* record and changes nothing else, and a second toggle of the same id
\* gives back the collection as it was before the first; a toggle of an
\* absent id is answered 404 and changes nothing.
C13_ToggleInvolution ==
    [][ToggleStep =>
            LET f   == ToggleFlag(last'.op)
                old == ToggledColl(last'.op, books, games)
                new == ToggledColl(last'.op, books', games')
                i   == ToggledIndex(last'.op, old, last'.arg)
            IN  IF i = 0
                THEN last'.status = 404 /\ UNCHANGED <<books, games>>
                ELSE /\ last'.status = 200
                     /\ NegatesOnly(old, new, i, f)
                     /\ [new EXCEPT ![i] = Toggled(@, f)] = old
                     /\ UNCHANGED <<authors, categories, notes>>]_vars

\* C13, the toggles alone: negation and frame, without the second toggle.
C13_ToggleNegates ==
    [][ToggleStep =>
            LET f   == ToggleFlag(last'.op)
                old == ToggledColl(last'.op, books, games)
                new == ToggledColl(last'.op, books', games')
                i   == ToggledIndex(last'.op, old, last'.arg)
            IN  IF i = 0
                THEN last'.status = 404 /\ UNCHANGED <<books, games>>
                ELSE last'.status = 200 /\ NegatesOnly(old, new, i, f)]_vars

DistinctOps == {"genres", "nationalities", "platforms"}

\* The values of the field a distinct-values read projects, one per record
\* of the collection it reads (null for a record without the field).
Projected(op, b, a, g) ==
    CASE op = "genres"        -> [i \in 1..Len(b) |->
            IF "genre" \in DOMAIN b[i] THEN [value |-> b[i].genre] ELSE EmptyObj]
      [] op = "nationalities" -> [i \in 1..Len(a) |->
            IF "nationality" \in DOMAIN a[i]
            THEN [value |-> a[i].nationality] ELSE EmptyObj]
      [] op = "platforms"     -> [i \in 1..Len(g) |->
            IF "platform" \in DOMAIN g[i]
            THEN [value |-> g[i].platform] ELSE EmptyObj]

\* The position of the first occurrence of v in values.
FirstAt(values, v) ==
    CHOOSE i \in 1..Len(values) :
        values[i] = v /\ \A j \in 1..(i - 1) : values[j] # v

\* out lists every value of values once, by first occurrence.
DistinctInOrder(out, values) ==
    /\ {out[i] : i \in 1..Len(out)} = {values[i] : i \in 1..Len(values)}
    /\ \A i, j \in 1..Len(out) : out[i] = out[j] => i = j
    /\ \A i, j \in 1..Len(out) :
            i < j => FirstAt(values, out[i]) < FirstAt(values, out[j])

\* C14: a distinct-values read (genres of the books, nationalities of the
\* authors, platforms of the games) answers every value of the projected
\* field that occurs in the collection exactly once, in the order of the
\* first occurrences.
C14_DistinctFirstOccurrence ==
    last.op \in DistinctOps =>
        /\ last.status = 200
        /\ DistinctInOrder(last.res.data,
                           Projected(last.op, books, authors, games))

\* C14, witness: the nationalities were read from authors among which a
\* value occurs again after another value has occurred.
C14_RepeatedValue ==
    /\ last.op = "nationalities"
    /\ Len(last.res.data) >= 3
    /\ Len(last.res.data) < Len(authors)
    /\ \E i, j, k \in 1..Len(authors) :
            /\ i < j /\ j < k
            /\ authors[i].nationality # authors[j].nationality
            /\ authors[k].nationality = authors[i].nationality

BatchOps == {"postBooksBatch", "postGamesBatch"}

\* The single create of the entity a batch create adds to.
CreateOf(op) == IF op = "postBooksBatch" THEN "postBook" ELSE "postGame"

BatchColl(op, b, g) == IF op = "postBooksBatch" THEN b ELSE g

\* The count a batch create reports.
BatchCount(op, res) == IF op = "postBooksBatch" THEN res.addedCount ELSE res.count

\* A step that answers a batch create whose body is an array.
BatchStep ==
    /\ nops' = nops + 1 /\ last'.n = nops' /\ last'.op \in BatchOps
    /\ last'.body.isArray

\* The elements of a batch that have the fields a single create requires.
ValidElements(op, items) ==
    SelectSeq(items, LAMBDA e : ~LacksRequired(CreateOf(op), e))

\* C15: a batch create appends the valid elements of its body, in order,
\* at the end of the collection and skips the others, it answers 201 with
\* the number of records the collection grew by, and the records that were
\* there are unchanged.
C15_BatchAppendsValid ==
    [][BatchStep =>
            LET old   == BatchColl(last'.op, books, games)
                new   == BatchColl(last'.op, books', games')
                valid == ValidElements(last'.op, last'.body.items)
            IN  /\ last'.status = 201
                /\ Len(new) = Len(old) + Len(valid)
                /\ SubSeq(new, 1, Len(old)) = old
                /\ \A k \in 1..Len(valid) :
                        \A f \in (DOMAIN valid[k]) \ {"id"} :
                            /\ f \in DOMAIN new[Len(old) + k]
                            /\ new[Len(old) + k][f] = valid[k][f]
                /\ BatchCount(last'.op, last'.res) = Len(new) - Len(old)]_vars

\* C15, the part every batch create keeps: the records that were there are
\* unchanged and the reported count is the growth of the collection.
C15_BatchGrowth ==
    [][BatchStep =>
            LET old == BatchColl(last'.op, books, games)
                new == BatchColl(last'.op, books', games')
            IN  /\ last'.status = 201
                /\ Len(new) >= Len(old)
                /\ SubSeq(new, 1, Len(old)) = old
                /\ BatchCount(last'.op, last'.res) = Len(new) - Len(old)]_vars

\* The collection after one single create per element of items, in order:
\* a create that is refused leaves the collection as it is.
RECURSIVE CreatedOneByOne(_, _, _)
CreatedOneByOne(op, coll, items) ==
    IF items = <<>> THEN coll
    ELSE LET e    == Head(items)
             next == IF op = "postBooksBatch"
                     THEN (IF BookInvalid(e) THEN coll
                           ELSE Append(coll, NewBook(coll, e)))
                     ELSE (IF GameInvalid(e) THEN coll
                           ELSE Append(coll, NewGame(coll, e)))
         IN  CreatedOneByOne(op, next, Tail(items))

\* C16: a batch create treats each element as the single create of the
\* entity treats a body: the element is appended if and only if the single
\* create would accept it, and the record stored is the record the single
\* create would store.
C16_BatchAsSingleCreates ==
    [][BatchStep =>
            BatchColl(last'.op, books', games') =
                CreatedOneByOne(last'.op, BatchColl(last'.op, books, games),
                                last'.body.items)]_vars

DuplicateOps == {"duplicateBook", "duplicateGame"}

DuplicatedColl(op, b, g) == IF op = "duplicateBook" THEN b ELSE g

DuplicatedIndex(op, coll, idp) ==
    IF op = "duplicateBook" THEN FindIndex(coll, ParseInt(idp))
    ELSE FindIndex(coll, ToNumber(idp))

\* A step that answers a duplicate request.
DuplicateStep ==
    nops' = nops + 1 /\ last'.n = nops' /\ last'.op \in DuplicateOps

\* copy is orig but for the id and the title, which is prefixed.
CopyOf(copy, orig) ==
    /\ DOMAIN copy = DOMAIN orig
    /\ copy.title = "Copie de " \o orig.title
    /\ \A f \in (DOMAIN orig) \ {"id", "title"} : copy[f] = orig[f]

\* old -> new appends one copy of old[i], and the copy is answered.
AppendsCopy(old, new, i, res) ==
    /\ Len(new) = Len(old) + 1
    /\ SubSeq(new, 1, Len(old)) = old
    /\ CopyOf(new[Len(new)], old[i])
    /\ res = new[Len(new)]

\* C17: a duplicate of an existing id appends one record, equal to the
\* original but for a fresh id, held by no other record, and the title with
\* the copy prefix; it leaves every other record as it was and answers the
\* new record.  A duplicate of an absent id is answered 404 and changes
\* nothing.
C17_DuplicateAppendsFreshCopy ==
    [][DuplicateStep =>
            LET old == DuplicatedColl(last'.op, books, games)
                new == DuplicatedColl(last'.op, books', games')
                i   == DuplicatedIndex(last'.op, old, last'.arg)
            IN  IF i = 0
                THEN last'.status = 404 /\ UNCHANGED <<books, games>>
                ELSE /\ last'.status = 201
                     /\ AppendsCopy(old, new, i, last'.res)
                     /\ \A j \in 1..Len(old) : old[j].id # new[Len(new)].id]_vars

\* C17 without the freshness of the id.
C17_DuplicateAppendsCopy ==
    [][DuplicateStep =>
            LET old == DuplicatedColl(last'.op, books, games)
                new == DuplicatedColl(last'.op, books', games')
                i   == DuplicatedIndex(last'.op, old, last'.arg)
            IN  IF i = 0
                THEN last'.status = 404 /\ UNCHANGED <<books, games>>
                ELSE last'.status = 201 /\ AppendsCopy(old, new, i, last'.res)]_vars

PutOps == {"putBook", "putAuthor", "putCategory", "putGame", "putNote"}

\* The create whose required fields a replace validates.
CreateFor(op) ==
    CASE op = "putBook"     -> "postBook"
      [] op = "putAuthor"   -> "postAuthor"
      [] op = "putCategory" -> "postCategory"
      [] op = "putGame"     -> "postGame"
      [] op = "putNote"     -> "postNote"

PutColl(op, b, a, c, g, n) ==
    CASE op = "putBook"     -> b
      [] op = "putAuthor"   -> a
      [] op = "putCategory" -> c
      [] op = "putGame"     -> g
      [] op = "putNote"     -> n

PutIndex(op, coll, idp) ==
    CASE op \in {"putBook", "putAuthor", "putCategory"} ->
            FindIndex(coll, ParseInt(idp))
      [] op = "putGame" -> FindIndex(coll, ToNumber(idp))
      [] op = "putNote" -> FindIndex(coll, StrId(idp))

\* The fields of the entity, the id apart.
EntityFields(op) ==
    CASE op = "putBook"     ->
            {"title", "author", "year", "genre", "price", "inStock", "rating"}
      [] op = "putAuthor"   ->
            {"firstName", "lastName", "nationality", "birthYear", "isAlive"}
      [] op = "putCategory" -> {"name", "description", "bookCount"}
      [] op = "putGame"     -> {"title", "platform", "year", "isFavorite"}
      [] op = "putNote"     -> {"title", "color", "content", "date", "isFavorite"}

\* A step that answers a replace.
PutStep == nops' = nops + 1 /\ last'.n = nops' /\ last'.op \in PutOps

\* The record with the id of orig and the fields the body supplies.
ExactlySupplied(op, orig, body) ==
    [f \in {"id"} \cup ((DOMAIN body) \cap EntityFields(op)) |->
        IF f = "id" THEN orig.id ELSE body[f]]

\* The fields a replace does not take from the body: the date of a note is
\* the date of the note replaced, and isFavorite of a game or a note is
\* false unless the body has it true.
Kept(op, orig, body) ==
    CASE op = "putNote" ->
            [date |-> orig.date,
             isFavorite |-> Has(body, "isFavorite") /\ body.isFavorite]
      [] op = "putGame" ->
            [isFavorite |-> Has(body, "isFavorite") /\ body.isFavorite]
      [] OTHER -> EmptyObj

\* The record a successful replace stores.
Rebuilt(op, orig, body) ==
    LET kept == Kept(op, orig, body)
    IN  [f \in {"id"} \cup (DOMAIN kept)
                \cup ((DOMAIN body) \cap EntityFields(op)) |->
            IF f = "id" THEN orig.id
            ELSE IF f \in DOMAIN kept THEN kept[f]
            ELSE body[f]]

\* A replace step: 404 on an absent id whatever the body, 400 on a missing
\* required field, no change in either case, and on success the record
\* stored at the same position is the one with exactly the supplied fields
\* (exact) or the rebuilt one, and the others are unchanged.
ReplaceContract(exact) ==
    LET op  == last'.op
        old == PutColl(op, books, authors, categories, games, notes)
        new == PutColl(op, books', authors', categories', games', notes')
        i   == PutIndex(op, old, last'.arg)
    IN  /\ i = 0 => last'.status = 404
        /\ (i # 0 /\ LacksRequired(CreateFor(op), last'.body)) =>
                last'.status = 400
        /\ last'.status \in {200, 400, 404}
        /\ last'.status # 200 =>
                UNCHANGED <<books, authors, categories, games, notes>>
        /\ last'.status = 200 =>
                /\ new = [old EXCEPT ![i] =
                            IF exact THEN ExactlySupplied(op, old[i], last'.body)
                            ELSE Rebuilt(op, old[i], last'.body)]
                /\ last'.res = new[i]

DeleteByIdOps == {"deleteBook", "deleteAuthor", "deleteCategory", "deleteGame"}

DeletedColl(op, b, a, c, g) ==
    CASE op = "deleteBook"     -> b
      [] op = "deleteAuthor"   -> a
      [] op = "deleteCategory" -> c
      [] op = "deleteGame"     -> g

\* The id the path parameter of a delete names.
DeletedId(op, idp) == IF op = "deleteGame" THEN ToNumber(idp) ELSE ParseInt(idp)

\* A step that answers a delete-by-id.
DeleteStep ==
    nops' = nops + 1 /\ last'.n = nops' /\ last'.op \in DeleteByIdOps

\* old -> new removes the record at i, the first that has the id x, and
\* keeps the others in their order.
RemovesFirst(old, new, i, x) ==
    /\ IdIs(old[i], x)
    /\ \A j \in 1..(i - 1) : ~IdIs(old[j], x)
    /\ Len(new) = Len(old) - 1
    /\ \A j \in 1..Len(new) : new[j] = IF j < i THEN old[j] ELSE old[j + 1]

\* C19: a delete-by-id of an existing id removes one record, the first
\* with that id, keeps the other records unchanged and in their order, and
\* answers the record removed; a delete of an absent id is answered 404
\* and changes nothing.
C19_DeleteRemovesAndReturns ==
    [][DeleteStep =>
            LET op  == last'.op
                old == DeletedColl(op, books, authors, categories, games)
                new == DeletedColl(op, books', authors', categories', games')
                x   == DeletedId(op, last'.arg)
            IN  IF \A j \in 1..Len(old) : ~IdIs(old[j], x)
                THEN /\ last'.status = 404
                     /\ UNCHANGED <<books, authors, categories, games>>
                ELSE /\ last'.status = 200
                     /\ \E i \in 1..Len(old) :
                            RemovesFirst(old, new, i, x) /\ last'.res = old[i]]_vars

\* C19 without the record in the response.
C19_DeleteRemovesFirst ==
    [][DeleteStep =>
            LET op  == last'.op
                old == DeletedColl(op, books, authors, categories, games)
                new == DeletedColl(op, books', authors', categories', games')
                x   == DeletedId(op, last'.arg)
            IN  IF \A j \in 1..Len(old) : ~IdIs(old[j], x)
                THEN /\ last'.status = 404
                     /\ UNCHANGED <<books, authors, categories, games>>
                ELSE /\ last'.status = 200
                     /\ \E i \in 1..Len(old) : RemovesFirst(old, new, i, x)]_vars

BulkDeleteOps == {"deleteOutOfStock", "deleteBefore", "deleteBooksBatch"}

\* A step that answers a bulk delete that was not refused.
BulkDeleteStep ==
    /\ nops' = nops + 1 /\ last'.n = nops' /\ last'.op \in BulkDeleteOps
    /\ last'.status = 200

\* Book r meets the criterion of the bulk delete: it is not in stock, it
\* was published before the year of the path, its id is in the list of the
\* body.
MeetsCriterion(op, arg, body, r) ==
    CASE op = "deleteOutOfStock" -> ~(Has(r, "inStock") /\ r.inStock)
      [] op = "deleteBefore"     ->
            /\ ~ParseInt(arg).nan
            /\ Has(r, "year") /\ r.year < ParseInt(arg).val
      [] op = "deleteBooksBatch" ->
            \E i \in 1..Len(body.ids) : body.ids[i] = r.id

\* C20: after a bulk delete (out of stock, before a year, by a list of
\* ids) the collection holds the records that did not meet the criterion,
\* unchanged and in their order; the number of deleted records reported is
\* the number of records that met it, and the remaining reported is the
\* length of the collection.
C20_BulkDeleteExact ==
    [][BulkDeleteStep =>
            LET Met(r)  == MeetsCriterion(last'.op, last'.arg, last'.body, r)
                Stays(r)== ~Met(r)
            IN  /\ books' = SelectSeq(books, Stays)
                /\ last'.res.deletedCount = Len(SelectSeq(books, Met))
                /\ Has(last'.res, "remaining") =>
                        last'.res.remaining = Len(books')]_vars

\* C20 for the requests whose year is a number, on books that have a year.
C20_BulkDeleteOfDated ==
    [][(/\ BulkDeleteStep
        /\ last'.op = "deleteBefore" => ~ParseInt(last'.arg).nan
        /\ \A i \in 1..Len(books) : Has(books[i], "year")) =>
            LET Met(r)  == MeetsCriterion(last'.op, last'.arg, last'.body, r)
                Stays(r)== ~Met(r)
            IN  /\ books' = SelectSeq(books, Stays)
                /\ last'.res.deletedCount = Len(SelectSeq(books, Met))
                /\ Has(last'.res, "remaining") =>
                        last'.res.remaining = Len(books')]_vars

\* C21: DELETE /api/books/batch answers as deletedIds the whole list of
\* requested ids, those that no book had before the request included,
\* while the count it reports is the number of books removed.
C21_DeletedIdsIsRequestedList ==
    [][(/\ nops' = nops + 1 /\ last'.n = nops'
        /\ last'.op = "deleteBooksBatch" /\ Has(last'.body, "ids")) =>
            /\ last'.status = 200
            /\ last'.res.deletedIds = last'.body.ids
            /\ \A i \in 1..Len(last'.body.ids) :
                    \A j \in 1..Len(books') : books'[j].id # last'.body.ids[i]
            /\ last'.res.deletedCount = Len(books) - Len(books')
            /\ last'.res.deletedCount =
                    Cardinality({j \in 1..Len(books) :
                        \E i \in 1..Len(last'.body.ids) :
                            books[j].id = last'.body.ids[i]})]_vars

\* C21, witness: more ids are answered as deleted than books were removed.
C21_AbsentIdReported ==
    /\ last.op = "deleteBooksBatch" /\ last.status = 200
    /\ last.res.deletedCount >= 1
    /\ Len(last.res.deletedIds) > last.res.deletedCount

\* A step that answers PATCH /api/books/:id/rating for an existing id with
\* a rating in the body.
RatingStep ==
    /\ nops' = nops + 1 /\ last'.n = nops' /\ last'.op = "setRating"
    /\ FindIndex(books, ParseInt(last'.arg)) # 0
    /\ Has(last'.body, "rating")

\* C22: PATCH /api/books/:id/rating on an existing id answers 400 to a
\* rating below 0 or above 5 and leaves the books unchanged; a rating in
\* 0..5 becomes the rating of that book and nothing else changes; no rating
\* that is in 0..5 leaves 0..5 by the request.
C22_RatingBounded ==
    [][RatingStep =>
            LET i == FindIndex(books, ParseInt(last'.arg))
                r == last'.body.rating
            IN  /\ IF r < 0 \/ r > 5
                   THEN last'.status = 400 /\ UNCHANGED books
                   ELSE /\ last'.status = 200
                        /\ Len(books') = Len(books)
                        /\ \A j \in 1..Len(books) : j # i => books'[j] = books[j]
                        /\ DOMAIN books'[i] = (DOMAIN books[i]) \cup {"rating"}
                        /\ books'[i].rating = r
                        /\ \A f \in (DOMAIN books[i]) \ {"rating"} :
                                books'[i][f] = books[i][f]
                        /\ last'.res.rating = r
                /\ \A j \in 1..Len(books') :
                        (Has(books[j], "rating") /\ books[j].rating \in 0..5) =>
                            books'[j].rating \in 0..5
                /\ UNCHANGED <<authors, categories, games, notes>>]_vars

\* C22, witness: a rating below 0 was refused for a book that is stored.
C22_NegativeRefused ==
    /\ last.op = "setRating" /\ last.status = 400
    /\ Has(last.body, "rating") /\ last.body.rating < 0
    /\ FindIndex(books, ParseInt(last.arg)) # 0

NoteWriteOps == {"dbPutNote", "dbPatchNote", "dbDeleteNote"}

CategoryWriteOps == {"sqlPutCategory", "sqlPatchCategory", "sqlDeleteCategory",
                     "ormPutCategory", "ormPatchCategory", "ormDeleteCategory"}

\* The request a step receives: the one just answered, or the one of the
\* handler just suspended.
Received ==
    IF last'.n = nops' THEN last'
    ELSE CHOOSE c \in pending' : c.n = nops'

\* No row of the table a persisted write addresses has the id of the path.
NoRowFor(op, idp) ==
    ToNumber(idp).val \notin
        RowIds(IF op \in NoteWriteOps THEN dbNotes ELSE dbCategories)

\* The body passes the validation the handler does before its statement.
PassesValidation(op, body) ==
    CASE op = "dbPutNote" ->
            /\ Has(body, "title") /\ body.title # ""
            /\ Has(body, "content") /\ body.content # ""
            /\ Has(body, "color") /\ body.color # ""
      [] op = "dbPatchNote" ->
            (DOMAIN body) \cap
                {"title", "color", "content", "isFavorite", "category_id"} # {}
      [] op \in {"sqlPutCategory", "ormPutCategory"} ->
            Has(body, "name") /\ body.name # ""
      [] op \in {"sqlPatchCategory", "ormPatchCategory"} ->
            (DOMAIN body) \cap {"name", "description"} # {}
      [] OTHER -> TRUE

\* A step receives a write of ops for an id no row has, with a body that
\* passes validation.
AbsentRowAddressed(ops) ==
    /\ nops' = nops + 1
    /\ Received.op \in ops
    /\ NoRowFor(Received.op, Received.arg)
    /\ PassesValidation(Received.op, Received.body)

\* C23: in the persisted variant a replace, a partial update or a delete
\* of a note or a category, by the SQL routes or the ORM routes, addressed
\* to an id that no row has is answered 404 and changes no row.
C23_AbsentRowNotFound ==
    [][AbsentRowAddressed(NoteWriteOps \cup CategoryWriteOps) =>
            /\ last'.n = nops' /\ last'.status = 404
            /\ UNCHANGED <<dbNotes, dbCategories>>]_vars

\* C23 for the handlers that look at the number of affected rows: PATCH and
\* DELETE of a note, and the SQL routes of the categories.
C23_CountedRowsNotFound ==
    [][AbsentRowAddressed({"dbPatchNote", "dbDeleteNote", "sqlPutCategory",
                           "sqlPatchCategory", "sqlDeleteCategory"}) =>
            /\ last'.n = nops' /\ last'.status = 404
            /\ UNCHANGED <<dbNotes, dbCategories>>]_vars

\* C23, apart from the status: no write to an absent id changes a row.
C23_AbsentRowUnchanged ==
    [][AbsentRowAddressed(NoteWriteOps \cup CategoryWriteOps) =>
            UNCHANGED <<dbNotes, dbCategories>>]_vars

CategoryDeleteOps == {"sqlDeleteCategory", "ormDeleteCategory"}

\* A step receives the delete, by one of ops, of a category that some note
\* references.
ReferencedDeleted(ops) ==
    /\ nops' = nops + 1
    /\ Received.op \in ops
    /\ ~NoRowFor(Received.op, Received.arg)
    /\ \E i \in 1..Len(dbNotes) :
            /\ Has(dbNotes[i], "category_id")
            /\ dbNotes[i].category_id = ToNumber(Received.arg).val

\* The delete is answered 204, the category is gone, no note is, and the
\* notes that referenced it, and only they, have lost their category_id.
NullsReferences ==
    LET id == ToNumber(Received.arg).val IN
    /\ last'.n = nops' /\ last'.status = 204
    /\ dbCategories' = SelectSeq(dbCategories, LAMBDA c : c.id # id)
    /\ Len(dbNotes') = Len(dbNotes)
    /\ \A i \in 1..Len(dbNotes) :
            IF Has(dbNotes[i], "category_id") /\ dbNotes[i].category_id = id
            THEN /\ ~Has(dbNotes'[i], "category_id")
                 /\ \A f \in (DOMAIN dbNotes[i]) \ {"category_id"} :
                        Has(dbNotes'[i], f) /\ dbNotes'[i][f] = dbNotes[i][f]
            ELSE dbNotes'[i] = dbNotes[i]

\* C24: in the persisted variant the delete of a category that notes
\* reference succeeds, removes no note and sets category_id to NULL on
\* exactly the notes that referenced it; and in every reachable state the
\* category_id of each note is NULL or the id of a category that exists.
C24_DeleteReferencedSetsNull ==
    /\ [][ReferencedDeleted(CategoryDeleteOps) => NullsReferences]_vars
    /\ [](\A i \in 1..Len(dbNotes) :
            Has(dbNotes[i], "category_id") =>
                dbNotes[i].category_id \in RowIds(dbCategories))

\* C24 for the ORM routes, whose schema declares ON DELETE SET NULL.
C24_OrmDeleteSetsNull ==
    [][ReferencedDeleted({"ormDeleteCategory"}) => NullsReferences]_vars

\* The second half of C24: each note's category_id is NULL or the id of a
\* category that exists.
C24_ReferenceIntegrity ==
    \A i \in 1..Len(dbNotes) :
        Has(dbNotes[i], "category_id") =>
            dbNotes[i].category_id \in RowIds(dbCategories)

NoteSelectOps == {"dbPutNote", "dbPatchNote"}

\* The record a response to PUT or PATCH /notes/:id shows: the row of the
\* PATCH, the first element of the array of the PUT, NoRes when there is
\* none.
Shown(reply) ==
    IF reply.op = "dbPatchNote" THEN reply.res
    ELSE IF reply.res.rows = <<>> THEN NoRes ELSE reply.res.rows[1]

\* The columns the UPDATE of the request wrote from its body.
OwnWrite(reply) ==
    IF reply.op = "dbPatchNote"
    THEN (DOMAIN reply.body) \cap
            {"title", "color", "content", "isFavorite", "category_id"}
    ELSE {"title", "color", "content"}

\* The response shows what the request's own UPDATE wrote.
ShowsOwnWrite(reply) ==
    /\ Shown(reply) # NoRes
    /\ \A f \in OwnWrite(reply) :
            Has(Shown(reply), f) /\ Shown(reply)[f] = reply.body[f]

\* A step sends the response of the re-select of PUT or PATCH /notes/:id.
ReselectStep ==
    /\ last' # last
    /\ last'.op \in NoteSelectOps
    /\ last'.status = 200

\* C25: the update and the re-select of PUT and PATCH /notes/:id are two
\* statements, each atomic, and not one transaction: the response is the
\* row as stored when the SELECT runs, which is what the request's own
\* UPDATE wrote when no other request came in between, and may be another
\* record, or none, when one did.
C25_ReselectReadsCurrentRow ==
    [][ReselectStep =>
        /\ UNCHANGED <<dbNotes, dbCategories>>
        /\ \E c \in pending :
                /\ c.n = last'.n /\ c \notin pending'
                /\ Shown(last') = FirstRow(dbNotes, ToNumber(c.arg).val)
                /\ (c.n = nops /\ ToNumber(c.arg).val \in RowIds(dbNotes))
                        => ShowsOwnWrite(last')]_vars

\* A response of PUT or PATCH /notes/:id shows a record that differs from
\* what the request's own UPDATE wrote.
C25_OtherWriteShown ==
    /\ last.op \in NoteSelectOps /\ last.status = 200
    /\ Shown(last) # NoRes
    /\ ~ShowsOwnWrite(last)

\* A response of PATCH /notes/:id, whose UPDATE matched a row, shows no
\* record: the row was deleted before the SELECT.
C25_DeletedBeforeReselect ==
    /\ last.op = "dbPatchNote" /\ last.status = 200
    /\ Shown(last) = NoRes

\* The positions of the records of coll that have a year.
Dated(coll) == { i \in 1..Len(coll) : Has(coll[i], "year") }

\* The first record of coll, in collection order, among those whose year
\* is the minimum, or the maximum when newest.
FirstExtreme(coll, newest) ==
    LET i == CHOOSE k \in Dated(coll) :
                /\ \A j \in Dated(coll) :
                        IF newest THEN coll[j].year <= coll[k].year
                        ELSE coll[j].year >= coll[k].year
                /\ \A j \in Dated(coll) :
                        j < k => coll[j].year # coll[k].year
    IN  coll[i]

\* A statistics read was answered.
StatsAnswered ==
    /\ last.op \in {"stats", "gameStats"}
    /\ last.status = 200

\* The oldest and the newest of the response are the first records with
\* the extreme year.
ReportsFirstExtreme ==
    IF last.op = "stats"
    THEN /\ last.res.data.oldestBook =
                JsonOf(FirstExtreme(books, FALSE), "title")
         /\ last.res.data.newestBook =
                JsonOf(FirstExtreme(books, TRUE), "title")
    ELSE last.res.old_game = JsonOf(FirstExtreme(games, FALSE), "title")

\* The collection the statistics read is about.
StatsColl == IF last.op = "stats" THEN books ELSE games

\* C26: the record a statistics read reports as the oldest (minimum year)
\* or the newest (maximum year) is, among the records that hold the extreme
\* year, the first in collection order.
C26_ExtremeIsFirstOccurrence ==
    (StatsAnswered /\ Dated(StatsColl) # {}) => ReportsFirstExtreme

\* C26 for a collection whose records all have a year.
C26_ExtremeOfDated ==
    (StatsAnswered /\ Dated(StatsColl) = 1..Len(StatsColl))
        => ReportsFirstExtreme

\* A statistics read answered on a collection where two records with
\* different titles share the minimum year.
C26_TiedOldest ==
    /\ StatsAnswered /\ Dated(StatsColl) = 1..Len(StatsColl)
    /\ \E i, j \in Dated(StatsColl) :
            /\ i < j
            /\ StatsColl[i].year = StatsColl[j].year
            /\ StatsColl[i].title # StatsColl[j].title
            /\ \A k \in Dated(StatsColl) :
                    StatsColl[k].year >= StatsColl[i].year

\* The fields of the body a PATCH /:id of the in-memory variant can update.
Supplied(op, body) ==
    (DOMAIN body) \cap
        CASE op = "patchBook" -> (DOMAIN body) \ {"id"}
          [] op = "patchGame" -> {"title", "platform", "year", "isFavorite"}
          [] op = "patchNote" -> {"title", "color", "content", "isFavorite"}

\* A step answers 200 to a PATCH /:id of ops, and the record stored at the
\* index patched and the record returned hold body.f for each supplied f.
StoresSupplied(ops) ==
    (nops' = nops + 1 /\ last'.op \in ops /\ last'.status = 200) =>
        LET old == PatchedColl(last'.op, books, authors, games, notes)
            new == PatchedColl(last'.op, books', authors', games', notes')
            i   == PatchedIndex(last'.op, old, last'.arg)
        IN  \A f \in Supplied(last'.op, last'.body) :
                /\ Has(new[i], f) /\ new[i][f] = last'.body[f]
                /\ Has(last'.res, f) /\ last'.res[f] = last'.body[f]

\* C27: after a successful PATCH /:id every updatable field the body
\* carries holds exactly the supplied value in the stored and in the
\* returned record, falsy values (year 0, "", false) included.
C27_PatchStoresSupplied ==
    [][StoresSupplied({"patchBook", "patchGame", "patchNote"})]_vars

\* C27 for PATCH /api/books/:id, which spreads the body.
C27_BookPatchStoresSupplied ==
    [][StoresSupplied({"patchBook"})]_vars

\* The step answers the request it receives.
AnsweredNow == last'.n = nops' /\ nops' = nops + 1

\* C28: every handler invocation sends exactly one response; a get-by-id
\* of an absent id sends the 404 and makes no other attempt to send.
C28_ExactlyOneResponse ==
    [][(last' # last) => last'.sends = 1]_vars

\* C28 for GET /api/games/:id/title and GET /api/books/:id, which return
\* with the 404.
C28_TitleSendsOnce ==
    [][(AnsweredNow /\ last'.op \in {"getGameTitle", "getBook"})
            => last'.sends = 1]_vars

\* A get-by-id of an absent id was answered 404 by a single send.
C28_AbsentTitleSentOnce ==
    /\ last.op = "getGameTitle" /\ last.status = 404 /\ last.sends = 1

\* The statistics object of the response counts the collection.
WellFormedStats ==
    /\ last.status = 200
    /\ last.res.data.total = Len(books)
    /\ last.res.data.available + last.res.data.unavailable = Len(books)
    /\ {"averagePrice", "averageRating", "oldestBook", "newestBook"}
            \subseteq DOMAIN last.res.data

\* C29: GET /api/books/stats answers a well-formed statistics object in
\* every reachable state of the collection, the empty collection included,
\* and never fails with an exception.
C29_StatsAlwaysAnswered ==
    last.op = "stats" => WellFormedStats

\* C29 for a collection that is not empty.
C29_StatsOfNonEmpty ==
    (last.op = "stats" /\ books # <<>>) => WellFormedStats

\* The statistics were asked for after the last book was deleted.
C29_StatsOfEmpty ==
    last.op = "stats" /\ books = <<>> /\ last.status = 500

\* The requests that read.
ReadOps ==
    {"listBooks", "getBook", "available", "classics", "topRated", "genres",
     "count", "first", "last", "stats", "byGenre", "byYear", "byPrice",
     "search", "getAuthor", "nationalities", "getCategory", "getGame",
     "getGameTitle", "gameStats", "platforms", "retro", "getNote"}

\* C30: a read request (list with pagination, sorting or filtering,
\* search, get-by-id, count, first and last, distinct values, statistics)
\* leaves every collection as it was: the same records with the same
\* values in the same order; a sorted list does not reorder the stored
\* collection.
C30_ReadsChangeNothing ==
    [][(AnsweredNow /\ last'.op \in ReadOps) =>
            UNCHANGED <<books, authors, categories, games, notes,
                        dbNotes, dbCategories>>]_vars

\* A sorted list was answered in an order that is not the stored one, and
\* the stored collection is the initial one.
C30_SortedListOfUnsorted ==
    /\ last.op = "listBooks" /\ last.status = 200
    /\ last.body.page = <<>> /\ last.body.limit = <<>>
    /\ last.body.sortBy # ""
    /\ last.res.data # books
    /\ books = BooksSeed

====
